---- MODULE Spec2Model ----
(***************************************************************************)
(* Model of the graph data layer of src/data/util.py: masked selection,    *)
(* symmetrization, largest connected component, normalization to a fixed   *)
(* point, label remapping / compression / alignment, cross-graph integrity *)
(* checking and stratified splitting.                                      *)
(*                                                                         *)
(* Arrays are functions over the positions 0..n-1 (numpy is 0-based).      *)
(* edge_index (shape [2, E]) is the sequence of its columns <<u, v>>.      *)
(* A label index (a Python dict, which keeps insertion order) is a         *)
(* sequence of <<key, value>> pairs; vertex_to_idx is a function from      *)
(* vertex identifiers to positions (its iteration order is never observed).*)
(* Every function returns a record of its return values, or the record    *)
(* [raised |-> <exception name>] when it raises.                           *)
(***************************************************************************)
EXTENDS Integers, Sequences, FiniteSets, TLC

\* ------------------------------------------------------------------ bounds
\* Largest number of vertices of an input graph.
MaxN == 3
\* Largest number of columns of an input edge_index.
MaxE == 2
\* Number of label names of an input label index.
NumClasses == 2

\* Vertex identifiers and label names (opaque strings).
VertexIds == <<"a", "b", "c", "d", "e">>
LabelNames == <<"A", "B", "C", "D", "E">>

\* ------------------------------------------------------- numpy-like arrays
Idx(n) == 0 .. (n - 1)

Size(a) == Cardinality(DOMAIN a)

EmptyArray == [p \in {} |-> 0]

Raise(e) == [raised |-> e]

IsRaised(r) == "raised" \in DOMAIN r

\* mask.sum()
MaskSum(mask) == Cardinality({p \in DOMAIN mask : mask[p]})

\* The position a selected old position gets: the number of selected positions below it.
NewPos(mask, p) == Cardinality({q \in DOMAIN mask : q < p /\ mask[q]})

\* np.arange(N)[mask][k]: the k-th selected old position.
OldPos(mask, k) == CHOOSE p \in DOMAIN mask : mask[p] /\ NewPos(mask, p) = k

\* a[mask] for a one-dimensional array or the rows of a matrix.
Take(a, mask) == [k \in Idx(MaskSum(mask)) |-> a[OldPos(mask, k)]]

\* The values of an array, np.unique(y).
Unique(y) == {y[p] : p \in DOMAIN y}

\* How often a value occurs in an array (the counts of np.unique).
Count(y, l) == Cardinality({p \in DOMAIN y : y[p] = l})

\* np.sort of a set of integers, as a sequence.
RECURSIVE SortedInts(_)
SortedInts(S) ==
    IF S = {} THEN <<>>
    ELSE LET m == CHOOSE e \in S : \A f \in S : e <= f
         IN <<m>> \o SortedInts(S \ {m})

\* ----------------------------------------------------- scipy.sparse pieces
\* sp.coo_matrix((np.ones(E), edge_index), shape=(n, n)): duplicates are summed
\* when the matrix is converted or added.
coo_matrix(edge_index, n) ==
    [e \in Idx(n) \X Idx(n) |->
        Cardinality({i \in 1 .. Len(edge_index) : edge_index[i] = e})]

\* np.array(A.nonzero()) of a CSR matrix: the non-zero entries in row-major order.
NonzeroRowMajor(A, n) ==
    LET keys == SortedInts({e[1] * n + e[2] : e \in {f \in DOMAIN A : A[f] # 0}})
    IN [i \in 1 .. Len(keys) |-> <<keys[i] \div n, keys[i] % n>>]

\* np.array(A.nonzero()) of a CSC matrix: the non-zero entries in column-major order.
NonzeroColMajor(A, n) ==
    LET keys == SortedInts({e[2] * n + e[1] : e \in {f \in DOMAIN A : A[f] # 0}})
    IN [i \in 1 .. Len(keys) |-> <<keys[i] % n, keys[i] \div n>>]

EdgeSet(edge_index) == {edge_index[i] : i \in 1 .. Len(edge_index)}

\* edge_index.max()
EdgeMax(edge_index) ==
    LET ends == {edge_index[i][1] : i \in 1 .. Len(edge_index)}
                \cup {edge_index[i][2] : i \in 1 .. Len(edge_index)}
    IN CHOOSE m \in ends : \A e \in ends : e <= m

\* ------------------------------------------------------------ Python dicts
\* A dict is the sequence of its <<key, value>> items in insertion order.
DictKeys(d) == {d[i][1] : i \in 1 .. Len(d)}

DictValues(d) == {d[i][2] : i \in 1 .. Len(d)}

\* d[k], for k in d
DictGet(d, k) == d[CHOOSE i \in 1 .. Len(d) : d[i][1] = k][2]

\* d[k] = v: an existing key keeps its place, a new key is appended.
DictPut(d, k, v) ==
    IF k \in DictKeys(d)
    THEN [i \in 1 .. Len(d) |-> IF d[i][1] = k THEN <<k, v>> ELSE d[i]]
    ELSE Append(d, <<k, v>>)

\* {k : v for k, v in items}: a later item with the same key overwrites the value.
RECURSIVE DictOf(_)
DictOf(items) ==
    IF items = <<>> THEN <<>>
    ELSE LET n == Len(items)
         IN DictPut(DictOf(SubSeq(items, 1, n - 1)), items[n][1], items[n][2])

\* {idx : label for label, idx in label_to_idx.items()}
InvertDict(d) == DictOf([i \in 1 .. Len(d) |-> <<d[i][2], d[i][1]>>])

\* Mutant of idx_mapping: the old position is kept.
idx_mapping_unchanged(mask, idx_old) == idx_old

\* Mutant of idx_mapping: the selected old positions are numbered in descending order.
idx_mapping_descending(mask, idx_old) == MaskSum(mask) - 1 - NewPos(mask, idx_old)

\* src/data/util.py:597  idx_mapping[idx_old]: the selected old positions are numbered
\* in ascending order.
idx_mapping(mask, idx_old) == NewPos(mask, idx_old)

\* ------------------------------------------------------- graph_select_idxs
\* Mutant of graph_select_idxs: the labels are cut to the first mask.sum() entries
\* (y[:n]) instead of being selected by the mask.
graph_select_idxs_cut_y(mask, x, edge_index, y, vertex_to_idx) ==
    LET N == Size(x)
        n == MaskSum(mask)
        A == coo_matrix(edge_index, N)
        Am == [e \in Idx(n) \X Idx(n) |-> A[<<OldPos(mask, e[1]), OldPos(mask, e[2])>>]]
        kept == {v \in DOMAIN vertex_to_idx :
                    vertex_to_idx[v] \in DOMAIN mask /\ mask[vertex_to_idx[v]]}
    IN [x |-> Take(x, mask),
        edge_index |-> NonzeroColMajor(Am, n),
        y |-> [k \in Idx(n) |-> y[k]],
        vertex_to_idx |-> [v \in kept |-> idx_mapping(mask, vertex_to_idx[v])]]

\* Mutant of graph_select_idxs: the rows of A are selected by the mask, the columns are
\* not (A.tocsr()[mask] without [:, mask]).
graph_select_idxs_rows_only(mask, x, edge_index, y, vertex_to_idx) ==
    LET N == Size(x)
        n == MaskSum(mask)
        A == coo_matrix(edge_index, N)
        Am == [e \in Idx(n) \X Idx(n) |-> A[<<OldPos(mask, e[1]), e[2]>>]]
        kept == {v \in DOMAIN vertex_to_idx :
                    vertex_to_idx[v] \in DOMAIN mask /\ mask[vertex_to_idx[v]]}
    IN [x |-> Take(x, mask),
        edge_index |-> NonzeroColMajor(Am, n),
        y |-> Take(y, mask),
        vertex_to_idx |-> [v \in kept |-> idx_mapping(mask, vertex_to_idx[v])]]

\* src/data/util.py:564  Reduces a graph by subsetting its vertices.
graph_select_idxs(mask, x, edge_index, y, vertex_to_idx) ==
    LET N == Size(x)
        n == MaskSum(mask)
        A == coo_matrix(edge_index, N)
        \* A.tocsr()[mask].tocsc()[:, mask]
        Am == [e \in Idx(n) \X Idx(n) |-> A[<<OldPos(mask, e[1]), OldPos(mask, e[2])>>]]
        kept == {v \in DOMAIN vertex_to_idx :
                    vertex_to_idx[v] \in DOMAIN mask /\ mask[vertex_to_idx[v]]}
    IN [x |-> Take(x, mask),
        edge_index |-> NonzeroColMajor(Am, n),
        y |-> Take(y, mask),
        vertex_to_idx |-> [v \in kept |-> idx_mapping(mask, vertex_to_idx[v])]]

\* ---------------------------------------------------- graph_make_symmetric
\* Mutant of graph_make_symmetric: the transpose alone (A.T instead of A + A.T).
graph_make_symmetric_transposed(edge_index) ==
    IF Len(edge_index) = 0 THEN Raise("ValueError")
    ELSE LET n == EdgeMax(edge_index) + 1
             A == coo_matrix(edge_index, n)
             S == [e \in Idx(n) \X Idx(n) |-> A[<<e[2], e[1]>>]]
         IN [edge_index |-> NonzeroRowMajor(S, n)]

\* Mutant of graph_make_symmetric: the columns followed by the reversed columns, without
\* passing through a matrix.
graph_make_symmetric_concatenated(edge_index) ==
    IF Len(edge_index) = 0 THEN Raise("ValueError")
    ELSE [edge_index |-> edge_index
                          \o [i \in 1 .. Len(edge_index) |->
                                 <<edge_index[i][2], edge_index[i][1]>>]]

\* src/data/util.py:435  edge_index.max() of an empty array raises ValueError.
graph_make_symmetric(edge_index) ==
    IF Len(edge_index) = 0 THEN Raise("ValueError")
    ELSE LET n == EdgeMax(edge_index) + 1
             A == coo_matrix(edge_index, n)
             \* A + A.T
             S == [e \in Idx(n) \X Idx(n) |-> A[e] + A[<<e[2], e[1]>>]]
         IN [edge_index |-> NonzeroRowMajor(S, n)]

\* ------------------------------------ graph_get_largest_connected_component
\* The vertices joined to a vertex of S by a path, edges read in either direction.
RECURSIVE Reach(_, _, _)
Reach(S, A, n) ==
    LET T == S \cup {v \in Idx(n) : \E u \in S : A[<<u, v>>] # 0 \/ A[<<v, u>>] # 0}
    IN IF T = S THEN S ELSE Reach(T, A, n)

MinOf(S) == CHOOSE m \in S : \A e \in S : m <= e

\* The numbering of the components, given the smallest vertex of each vertex's
\* component: components are numbered in the order of their smallest vertex.
ComponentLabels(smallest, n) ==
    [v \in Idx(n) |->
        Cardinality({smallest[u] : u \in {w \in Idx(n) : smallest[w] < smallest[v]}})]

\* sp.csgraph.connected_components(A) (directed=True, connection='weak'): a flood fill
\* from vertex 0, 1, ... over the edges read in either direction.
connected_components(A, n) ==
    ComponentLabels([v \in Idx(n) |-> MinOf(Reach({v}, A, n))], n)

\* Mutant of LargestLabel: argmin instead of argmax, the first of the least frequent labels.
LargestLabel_argmin(labels) ==
    CHOOSE l \in Unique(labels) :
        /\ \A k \in Unique(labels) : Count(labels, l) <= Count(labels, k)
        /\ \A k \in Unique(labels) : Count(labels, k) = Count(labels, l) => l <= k

\* src/data/util.py:483-484  np.unique(labels, return_counts=True) and
\* label_names[label_counts.argmax()]: the first of the most frequent labels.
LargestLabel(labels) ==
    CHOOSE l \in Unique(labels) :
        /\ \A k \in Unique(labels) : Count(labels, k) <= Count(labels, l)
        /\ \A k \in Unique(labels) : Count(labels, k) = Count(labels, l) => l <= k

\* src/data/util.py:485-486  the selection by labels == label_lcc, returned with that mask.
SelectComponent(lcc_mask, x, edge_index, y, vertex_to_idx) ==
    [mask |-> lcc_mask] @@ graph_select_idxs(lcc_mask, x, edge_index, y, vertex_to_idx)

\* src/data/util.py:484-486
ComponentMask(labels) == [v \in DOMAIN labels |-> labels[v] = LargestLabel(labels)]

\* src/data/util.py:453  argmax of an empty sequence raises ValueError.
graph_get_largest_connected_component(x, edge_index, y, vertex_to_idx) ==
    IF Size(x) = 0 THEN Raise("ValueError")
    ELSE SelectComponent(
             ComponentMask(connected_components(coo_matrix(edge_index, Size(x)), Size(x))),
             x, edge_index, y, vertex_to_idx)

\* --------------------------------------------------------- graph_normalize
\* src/data/util.py:541-543  the classes with fewer than min_class_count vertices.
Underrepresented(y, min_class_count) ==
    {l \in Unique(y) : Count(y, l) < min_class_count}

RECURSIVE NormalizeLoop(_, _, _, _, _)

\* Mutant of NormalizeNext: one iteration only, no return to the loop head.
NormalizeNext_once(sel, n, min_class_count, idx_to_label, verbose) == sel

\* src/data/util.py:549-552  the fixed-point test at the end of an iteration.
NormalizeNext(sel, n, min_class_count, idx_to_label, verbose) ==
    IF Size(sel.x) = n THEN sel
    ELSE NormalizeLoop(sel, Size(sel.x), min_class_count, idx_to_label, verbose)

\* src/data/util.py:540-546  the removal of the underrepresented classes; the printed
\* line reads idx_to_label[label], a KeyError for a label without a name.
NormalizePrune(lcc, under, n, min_class_count, idx_to_label, verbose) ==
    IF verbose /\ \E l \in under : l \notin DictKeys(idx_to_label)
    THEN Raise("KeyError")
    ELSE NormalizeNext(
             graph_select_idxs([p \in DOMAIN lcc.y |-> lcc.y[p] \notin under],
                               lcc.x, lcc.edge_index, lcc.y, lcc.vertex_to_idx),
             n, min_class_count, idx_to_label, verbose)

\* src/data/util.py:534-552  the while loop of graph_normalize; g holds x, edge_index,
\* y and vertex_to_idx, n the vertex count before the iteration.
NormalizeLoop(g, n, min_class_count, idx_to_label, verbose) ==
    IF ~(n > 0) THEN g
    ELSE LET lcc == graph_get_largest_connected_component(g.x, g.edge_index, g.y,
                                                          g.vertex_to_idx)
         IN NormalizePrune(lcc, Underrepresented(lcc.y, min_class_count), n,
                           min_class_count, idx_to_label, verbose)

\* Mutant of FixLabels: the names without a vertex are dropped and the ids are kept.
FixLabels_keep_ids(y, label_to_idx) ==
    [y |-> y, label_to_idx |-> SelectSeq(label_to_idx, LAMBDA it : it[2] \in Unique(y))]

\* src/data/util.py:554-559  "Fix label_to_idx": the labels that still occur, renumbered
\* in the order of the old dict; a later label over the same old id overwrites.
FixLabels(y, label_to_idx) ==
    LET kept == SelectSeq(label_to_idx, LAMBDA it : it[2] \in Unique(y))
        last(l) == CHOOSE k \in 1 .. Len(kept) :
                      kept[k][2] = l /\ \A j \in 1 .. Len(kept) : kept[j][2] = l => j <= k
    IN [y |-> [p \in DOMAIN y |->
                  IF y[p] \in DictValues(kept) THEN last(y[p]) - 1 ELSE -1],
        label_to_idx |-> [k \in 1 .. Len(kept) |-> <<kept[k][1], k - 1>>]]

\* src/data/util.py:560-562  assert (y >= 0).all() and the return.
NormalizeReturn(g, fix) ==
    IF \E p \in DOMAIN fix.y : ~(fix.y[p] >= 0) THEN Raise("AssertionError")
    ELSE [x |-> g.x, edge_index |-> g.edge_index, y |-> fix.y,
          vertex_to_idx |-> g.vertex_to_idx, label_to_idx |-> fix.label_to_idx]

\* src/data/util.py:554-562
NormalizeFix(g, label_to_idx) ==
    IF IsRaised(g) THEN g ELSE NormalizeReturn(g, FixLabels(g.y, label_to_idx))

\* src/data/util.py:531-562  the function after the symmetrization.
NormalizeFrom(sym, x, y, vertex_to_idx, label_to_idx, min_class_count, verbose) ==
    IF IsRaised(sym) THEN sym
    ELSE NormalizeFix(
             NormalizeLoop([x |-> x, edge_index |-> sym.edge_index, y |-> y,
                            vertex_to_idx |-> vertex_to_idx],
                           Size(x), min_class_count, InvertDict(label_to_idx), verbose),
             label_to_idx)

\* src/data/util.py:488
graph_normalize(x, edge_index, y, vertex_to_idx, label_to_idx, make_symmetric, min_class_count, verbose) ==
    NormalizeFrom(IF make_symmetric THEN graph_make_symmetric(edge_index)
                  ELSE [edge_index |-> edge_index],
                  x, y, vertex_to_idx, label_to_idx, min_class_count, verbose)

\* ------------------------------------------- remap_labels, compress_labels
\* Mutant of RemapWith: the items of the remapping are applied one after the other to
\* the labels already remapped (labels[labels == label_old] = label_new in place).
RECURSIVE RemapChained(_, _, _)
RemapChained(labels, remapping, k) ==
    IF k = 0 THEN labels
    ELSE LET before == RemapChained(labels, remapping, k - 1)
         IN [p \in DOMAIN labels |->
                IF before[p] = remapping[k][1] THEN remapping[k][2] ELSE before[p]]

RemapWith_in_place(labels, idx_to_label, remapping, undefined_label) ==
    IF \E old \in DictKeys(remapping) : old \notin DictKeys(idx_to_label)
    THEN Raise("KeyError")
    ELSE [labels |-> [p \in DOMAIN labels |->
                         IF labels[p] \in DictKeys(remapping)
                         THEN RemapChained(labels, remapping, Len(remapping))[p]
                         ELSE undefined_label],
          label_to_idx |-> DictOf([i \in 1 .. Len(remapping) |->
                              <<DictGet(idx_to_label, remapping[i][1]), remapping[i][2]>>])]

\* src/data/util.py:622-629  every label is remapped against the labels passed in.
RemapWith(labels, idx_to_label, remapping, undefined_label) ==
    IF \E old \in DictKeys(remapping) : old \notin DictKeys(idx_to_label)
    THEN Raise("KeyError")
    ELSE [labels |-> [p \in DOMAIN labels |->
                         IF labels[p] \in DictKeys(remapping)
                         THEN DictGet(remapping, labels[p]) ELSE undefined_label],
          label_to_idx |-> DictOf([i \in 1 .. Len(remapping) |->
                              <<DictGet(idx_to_label, remapping[i][1]), remapping[i][2]>>])]

\* src/data/util.py:601
remap_labels(labels, label_to_idx, remapping, undefined_label) ==
    RemapWith(labels, InvertDict(label_to_idx), remapping, undefined_label)

\* Mutant of Compression: the sorted labels are numbered from the largest down.
Compression_descending(label_set_sorted) ==
    [i \in 1 .. Len(label_set_sorted) |->
        <<label_set_sorted[i], Len(label_set_sorted) - i>>]

\* src/data/util.py:651-652  {idx_old : idx_new for idx_new, idx_old in enumerate(sorted)}
Compression(label_set_sorted) ==
    [i \in 1 .. Len(label_set_sorted) |-> <<label_set_sorted[i], i - 1>>]

\* Mutant of CompressWith: the labels are compressed and the label index is kept.
CompressWith_keep_index(labels, label_to_idx, compression) ==
    LET r == remap_labels(labels, label_to_idx, compression, -1)
    IN IF IsRaised(r) THEN r
       ELSE [compression |-> compression, labels |-> r.labels, label_to_idx |-> label_to_idx]

\* src/data/util.py:653-654
CompressWith(labels, label_to_idx, compression) ==
    LET r == remap_labels(labels, label_to_idx, compression, -1)
    IN IF IsRaised(r) THEN r ELSE [compression |-> compression] @@ r

\* src/data/util.py:631
compress_labels(labels, label_to_idx) ==
    CompressWith(labels, label_to_idx, Compression(SortedInts(Unique(labels))))

\* ----------------------------------------------------- graph_select_labels
\* src/data/util.py:136  (the second definition, which replaces the one at line 92)
get_label_mask(labels, labels_to_select) ==
    [p \in DOMAIN labels |-> labels[p] \in labels_to_select]

\* Mutant of MaskAndInner: the mask of the component alone (mask = lcc_mask).
MaskAndInner_lcc_alone(mask, lcc_mask) == lcc_mask

\* src/data/util.py:701  mask[mask] &= lcc_mask: the selected positions of mask take
\* the values of lcc_mask.
MaskAndInner(mask, lcc_mask) ==
    [p \in DOMAIN mask |-> IF mask[p] THEN lcc_mask[NewPos(mask, p)] ELSE FALSE]

\* src/data/util.py:705  the returned tuple; comp holds the (compressed) labels and index.
SelectLabelsReturn(g, mask, comp) ==
    IF IsRaised(comp) THEN comp
    ELSE [x |-> g.x, edge_index |-> g.edge_index, y |-> comp.labels,
          vertex_to_idx |-> g.vertex_to_idx, label_to_idx |-> comp.label_to_idx,
          mask |-> mask]

\* src/data/util.py:702-705
SelectLabelsCompress(g, mask, label_to_idx, compress) ==
    SelectLabelsReturn(g, mask,
                       IF compress THEN compress_labels(g.y, label_to_idx)
                       ELSE [labels |-> g.y, label_to_idx |-> label_to_idx])

\* src/data/util.py:700-701
SelectLabelsComponent(lcc, mask, label_to_idx, compress) ==
    IF IsRaised(lcc) THEN lcc
    ELSE SelectLabelsCompress(lcc, MaskAndInner(mask, lcc.mask), label_to_idx, compress)

\* src/data/util.py:699-705
SelectLabelsConnected(sel, mask, label_to_idx, connected, compress) ==
    IF connected
    THEN SelectLabelsComponent(
             graph_get_largest_connected_component(sel.x, sel.edge_index, sel.y,
                                                   sel.vertex_to_idx),
             mask, label_to_idx, compress)
    ELSE SelectLabelsCompress(sel, mask, label_to_idx, compress)

\* src/data/util.py:697-705
SelectLabelsMasked(mask, x, edge_index, y, vertex_to_idx, label_to_idx, connected, compress) ==
    SelectLabelsConnected(graph_select_idxs(mask, x, edge_index, y, vertex_to_idx),
                          mask, label_to_idx, connected, compress)

\* src/data/util.py:656
graph_select_labels(x, edge_index, y, vertex_to_idx, label_to_idx, select_labels, connected, compress) ==
    SelectLabelsMasked(get_label_mask(y, select_labels), x, edge_index, y, vertex_to_idx,
                       label_to_idx, connected, compress)

\* ------------------------------------------- permute_label_to_idx_to_match
\* Mutant of FixedByTarget: key and value swapped (remapping[idx_new] = idx_old).
FixedByTarget_swapped(label_to_idx_base, label_to_idx_target) ==
    LET shared == SelectSeq(label_to_idx_target,
                            LAMBDA it : it[1] \in DictKeys(label_to_idx_base))
    IN DictOf([i \in 1 .. Len(shared) |->
                  <<shared[i][2], DictGet(label_to_idx_base, shared[i][1])>>])

\* src/data/util.py:211-214  the ids fixed by label_to_idx_target.
FixedByTarget(label_to_idx_base, label_to_idx_target) ==
    LET shared == SelectSeq(label_to_idx_target,
                            LAMBDA it : it[1] \in DictKeys(label_to_idx_base))
    IN DictOf([i \in 1 .. Len(shared) |->
                  <<DictGet(label_to_idx_base, shared[i][1]), shared[i][2]>>])

\* Mutant of SmallestUnused: the used ids are not taken out of the range.
SmallestUnused_of_range(remapping) ==
    IF DictValues(remapping) = {} THEN Raise("ValueError") ELSE [idx_new |-> 0]

\* Mutant of SmallestUnused: the id after the largest used id, whatever ids are free
\* below it.
SmallestUnused_after_largest(remapping) ==
    LET vals == DictValues(remapping)
    IN IF vals = {} THEN Raise("ValueError")
       ELSE [idx_new |-> (CHOOSE m \in vals : \A v \in vals : v <= m) + 1]

\* src/data/util.py:218  min(set(range(max(remapping.values()) + 2)) - set(remapping.values()));
\* max() and min() of an empty collection raise ValueError.
SmallestUnused(remapping) ==
    LET vals == DictValues(remapping)
        top == (CHOOSE m \in vals : \A v \in vals : v <= m) + 2
        free == Idx(top) \ vals
    IN IF vals = {} \/ free = {} THEN Raise("ValueError")
       ELSE [idx_new |-> MinOf(free)]

\* src/data/util.py:216-219  the loop over the items of label_to_idx_base.
RECURSIVE FillUnfixed(_, _)
FillUnfixed(remapping, items) ==
    IF items = <<>> THEN [remapping |-> remapping]
    ELSE LET idx_old == Head(items)[2]
             new == SmallestUnused(remapping)
         IN IF idx_old \in DictKeys(remapping) THEN FillUnfixed(remapping, Tail(items))
            ELSE IF IsRaised(new) THEN new
            ELSE FillUnfixed(DictPut(remapping, idx_old, new.idx_new), Tail(items))

\* src/data/util.py:193
permute_label_to_idx_to_match(label_to_idx_base, label_to_idx_target) ==
    FillUnfixed(FixedByTarget(label_to_idx_base, label_to_idx_target), label_to_idx_base)

\* --------------------------------------------------------- assert_integrity
Abs(a) == IF a < 0 THEN -a ELSE a

\* np.allclose(a, b) with the defaults rtol = 1e-5, atol = 1e-8, on rows of numbers
\* in units of 1e-8:  |a - b| <= atol + rtol * |b|  in every column.
AllClose(a, b) ==
    \A i \in DOMAIN a : 100000 * Abs(a[i] - b[i]) <= 100000 + Abs(b[i])

\* {idx : v for v, idx in vertex_to_idx.items()}, read at one position.
VertexAt(vertex_to_idx, idx) == CHOOSE v \in DOMAIN vertex_to_idx : vertex_to_idx[v] = idx

\* src/data/util.py:308-313  the identifiers of the heads of the edges leaving v.
Neighbours(edge_index, vertex_to_idx, v) ==
    {VertexAt(vertex_to_idx, edge_index[i][2]) :
        i \in {j \in 1 .. Len(edge_index) : edge_index[j][1] = vertex_to_idx[v]}}

\* src/data/util.py:296-299  the label name of every vertex; a label id without a name
\* raises KeyError.
LabelsNamed(g) ==
    \A v \in DOMAIN g.vertex_to_idx :
        g.y[g.vertex_to_idx[v]] \in DictKeys(InvertDict(g.label_to_idx))

\* Mutant of VertexLabel: the label id is compared instead of the label name.
VertexLabel_id(g, v) == g.y[g.vertex_to_idx[v]]

VertexLabel(g, v) == DictGet(InvertDict(g.label_to_idx), g.y[g.vertex_to_idx[v]])

\* Mutant of VertexIntact: the neighbourhoods are not compared.
VertexIntact_no_neighbours(first, second, vertex, vertex_intersection) ==
    /\ AllClose(first.x[first.vertex_to_idx[vertex]], second.x[second.vertex_to_idx[vertex]])
    /\ VertexLabel(first, vertex) = VertexLabel(second, vertex)

\* src/data/util.py:318-320  the three checks of one vertex of the intersection.
VertexIntact(first, second, vertex, vertex_intersection) ==
    /\ AllClose(first.x[first.vertex_to_idx[vertex]], second.x[second.vertex_to_idx[vertex]])
    /\ VertexLabel(first, vertex) = VertexLabel(second, vertex)
    /\ Neighbours(first.edge_index, first.vertex_to_idx, vertex) \cap vertex_intersection
         = Neighbours(second.edge_index, second.vertex_to_idx, vertex) \cap vertex_intersection

\* Mutant of assert_integrity: both subset checks are made whatever the flags are.
assert_integrity_subsets_always(first, second, assert_second_is_vertex_subset, assert_second_is_label_subset) ==
    LET vertex_intersection == DOMAIN first.vertex_to_idx \cap DOMAIN second.vertex_to_idx
    IN IF ~LabelsNamed(first) \/ ~LabelsNamed(second) THEN Raise("KeyError")
       ELSE IF ~(DOMAIN second.vertex_to_idx \subseteq DOMAIN first.vertex_to_idx)
       THEN Raise("AssertionError")
       ELSE IF ~(DictKeys(second.label_to_idx) \subseteq DictKeys(first.label_to_idx))
       THEN Raise("AssertionError")
       ELSE IF \E vertex \in vertex_intersection :
                  ~VertexIntact(first, second, vertex, vertex_intersection)
       THEN Raise("AssertionError")
       ELSE [num_asserted |-> Cardinality(vertex_intersection)]

\* src/data/util.py:250  first and second hold x, edge_index, y, vertex_to_idx and
\* label_to_idx of the two graphs.
assert_integrity(first, second, assert_second_is_vertex_subset, assert_second_is_label_subset) ==
    LET vertex_intersection == DOMAIN first.vertex_to_idx \cap DOMAIN second.vertex_to_idx
    IN IF ~LabelsNamed(first) \/ ~LabelsNamed(second) THEN Raise("KeyError")
       ELSE IF /\ assert_second_is_vertex_subset
               /\ ~(DOMAIN second.vertex_to_idx \subseteq DOMAIN first.vertex_to_idx)
       THEN Raise("AssertionError")
       ELSE IF /\ assert_second_is_label_subset
               /\ ~(DictKeys(second.label_to_idx) \subseteq DictKeys(first.label_to_idx))
       THEN Raise("AssertionError")
       ELSE IF \E vertex \in vertex_intersection :
                  ~VertexIntact(first, second, vertex, vertex_intersection)
       THEN Raise("AssertionError")
       ELSE [num_asserted |-> Cardinality(vertex_intersection)]

\* ----------------------------------------------- split_from_mask_stratified
\* The generator np.random.RandomState: a state in 0 .. RngModulus-1; a draw reads the
\* state and advances it.
RngModulus == 8

RngNext(s) == (5 * s + 3) % RngModulus

Swap(a, i, j) == [a EXCEPT ![i] = a[j], ![j] = a[i]]

\* rng.shuffle(idxs): for i in reversed(range(1, n)): j = a draw in [0, i]; swap i, j.
\* idxs is a sequence (its k-th element at index k + 1); st holds idxs and the generator.
RECURSIVE ShuffleFrom(_, _)
ShuffleFrom(st, i) ==
    IF i < 1 THEN st
    ELSE ShuffleFrom([idxs |-> Swap(st.idxs, i + 1, (st.rng % (i + 1)) + 1),
                      rng |-> RngNext(st.rng)], i - 1)

Shuffle(idxs, rng) == ShuffleFrom([idxs |-> idxs, rng |-> rng], Len(idxs) - 1)

\* A Python slice bound: negative counts from the end, and all are clipped.
SliceBound(i, n) == IF i < 0 THEN (IF i + n < 0 THEN 0 ELSE i + n) ELSE (IF i > n THEN n ELSE i)

\* Mutant of Slice: the end of the slice is included (idxs[start : end + 1]).
Slice_inclusive(idxs, start, end) ==
    {idxs[k + 1] : k \in {j \in Idx(Len(idxs)) :
                            SliceBound(start, Len(idxs)) <= j /\ j <= SliceBound(end, Len(idxs))}}

\* The elements of idxs[start : end], as a set.
Slice(idxs, start, end) ==
    {idxs[k + 1] : k \in {j \in Idx(Len(idxs)) :
                            SliceBound(start, Len(idxs)) <= j /\ j < SliceBound(end, Len(idxs))}}

\* src/data/util.py:132-134  sample_mask[idxs[:num_samples]] = True, sh the shuffled
\* idxs and the generator.
SampleOf(mask, num_samples, sh) ==
    [sample_mask |-> [p \in DOMAIN mask |-> p \in Slice(sh.idxs, 0, num_samples)],
     rng |-> sh.rng]

\* ---------------------------------------------------------- sample_from_mask
\* Mutant of sample_from_mask: the mask is shuffled before its size is checked.
sample_from_mask_shuffle_first(mask, num_samples, rng) ==
    IF MaskSum(mask) < num_samples
    THEN [raised |-> "SamplingError",
          rng |-> Shuffle(SortedInts({p \in DOMAIN mask : mask[p]}), rng).rng]
    ELSE SampleOf(mask, num_samples,
                  Shuffle(SortedInts({p \in DOMAIN mask : mask[p]}), rng))

\* src/data/util.py:109  returns sample_mask and the generator as the call leaves it.
sample_from_mask(mask, num_samples, rng) ==
    IF MaskSum(mask) < num_samples
    THEN [raised |-> "SamplingError", rng |-> rng]
    ELSE SampleOf(mask, num_samples,
                  Shuffle(SortedInts({p \in DOMAIN mask : mask[p]}), rng))

\* ---------------------------------------------------------- sample_uniformly
\* src/data/util.py:182-183  the loop over all_labels, a set: order is the order in which
\* the set yields its elements. st holds sample_mask and the generator; an exception of
\* sample_from_mask leaves the loop with the generator as the earlier classes left it.
RECURSIVE SampleClasses(_, _, _, _, _)
SampleClasses(labels, order, num_samples, mask, st) ==
    IF order = <<>> THEN st
    ELSE LET r == sample_from_mask([p \in DOMAIN mask |-> mask[p] /\ labels[p] = Head(order)],
                                   num_samples, st.rng)
         IN IF IsRaised(r) THEN r
            ELSE SampleClasses(labels, Tail(order), num_samples, mask,
                               [sample_mask |-> [p \in DOMAIN mask |->
                                                    st.sample_mask[p] \/ r.sample_mask[p]],
                                rng |-> r.rng])

\* src/data/util.py:189-191  assert sample_mask.sum() == num_samples * len(all_labels)
SampleUniformlyReturn(st, num_samples, k) ==
    IF IsRaised(st) THEN st
    ELSE IF MaskSum(st.sample_mask) # num_samples * k
    THEN [raised |-> "AssertionError", rng |-> st.rng]
    ELSE st

\* src/data/util.py:156  returns sample_mask and the generator as the call leaves it.
sample_uniformly(labels, order, num_samples, mask, rng) ==
    SampleUniformlyReturn(
        SampleClasses(labels, order, num_samples, mask,
                      [sample_mask |-> [p \in DOMAIN labels |-> FALSE], rng |-> rng]),
        num_samples, Len(order))

\* ------------------------------------------------------- IEEE 754 binary64
\* The sizes, their cumulative sums and the products count * endpoint are float64
\* values. A non-negative float64 is a record [m, e]: m the Float64Bits bits of the
\* significand, most significant first and 1 unless the value is 0.0 (m = <<>>), and e
\* the exponent of the last bit, so that the value is m * 2^e.
Float64Bits == 53

Zeros(k) == [i \in 1 .. k |-> 0]

\* The bits of a non-negative integer, most significant first, and the integer of bits.
RECURSIVE BitsOf(_)
BitsOf(v) == IF v = 0 THEN <<>> ELSE BitsOf(v \div 2) \o <<v % 2>>

RECURSIVE IntOfBits(_)
IntOfBits(b) ==
    IF b = <<>> THEN 0 ELSE 2 * IntOfBits(SubSeq(b, 1, Len(b) - 1)) + b[Len(b)]

\* The bits without the leading zeros.
StripZeros(b) ==
    IF \A i \in 1 .. Len(b) : b[i] = 0 THEN <<>>
    ELSE SubSeq(b, CHOOSE i \in 1 .. Len(b) : b[i] = 1 /\ \A j \in 1 .. (i - 1) : b[j] = 0,
                Len(b))

\* The carry into bit i of a + b, two bit sequences of the same length: some bit to the
\* right generates a carry and every bit between passes it on.
CarryInto(a, b, i) ==
    \E j \in (i + 1) .. Len(a) :
        a[j] + b[j] = 2 /\ \A k \in (i + 1) .. (j - 1) : a[k] + b[k] = 1

\* a + b, one bit longer than a and b.
AddBits(a, b) ==
    [i \in 1 .. (Len(a) + 1) |->
        IF i = 1 THEN (IF CarryInto(a, b, 0) THEN 1 ELSE 0)
        ELSE (a[i - 1] + b[i - 1] + (IF CarryInto(a, b, i - 1) THEN 1 ELSE 0)) % 2]

\* a + b, the shorter sequence filled with zeros on the left.
AddAligned(a, b, len) == AddBits(Zeros(len - Len(a)) \o a, Zeros(len - Len(b)) \o b)

AddPadded(a, b) == AddAligned(a, b, IF Len(a) > Len(b) THEN Len(a) ELSE Len(b))

\* The product of the bits a and the integer whose first k bits are n[1 .. k].
RECURSIVE MulBits(_, _, _)
MulBits(a, n, k) ==
    IF k = 0 THEN <<>>
    ELSE AddPadded(MulBits(a, n, k - 1) \o <<0>>, IF n[k] = 1 THEN a ELSE <<>>)

\* Round to nearest, ties to even: the float64 nearest to b * 2^e, b longer than
\* Float64Bits and without leading zeros, plus a rest below the last bit of b when
\* inexact is set.
RoundUp(b, inexact) ==
    /\ b[Float64Bits + 1] = 1
    /\ \/ inexact
       \/ \E i \in (Float64Bits + 2) .. Len(b) : b[i] = 1
       \/ b[Float64Bits] = 1

RoundKept(b, e, up) ==
    IF up /\ \A i \in 1 .. Float64Bits : b[i] = 1
    THEN [m |-> <<1>> \o Zeros(Float64Bits - 1), e |-> e + (Len(b) - Float64Bits) + 1]
    ELSE [m |-> [i \in 1 .. Float64Bits |->
                    IF up /\ \A j \in (i + 1) .. Float64Bits : b[j] = 1
                    THEN 1 - b[i] ELSE b[i]],
          e |-> e + (Len(b) - Float64Bits)]

RoundStripped(b, e, inexact) ==
    IF b = <<>> THEN [m |-> <<>>, e |-> 0]
    ELSE IF Len(b) <= Float64Bits
    THEN [m |-> b \o Zeros(Float64Bits - Len(b)), e |-> e - (Float64Bits - Len(b))]
    ELSE RoundKept(b, e, RoundUp(b, inexact))

RoundFloat(bits, e, inexact) == RoundStripped(StripZeros(bits), e, inexact)

\* 2^i modulo den.
RECURSIVE PowMod(_, _)
PowMod(i, den) ==
    IF i = 0 THEN 1 % den
    ELSE IF i % 2 = 1 THEN (2 * PowMod(i - 1, den)) % den
    ELSE (PowMod(i \div 2, den) * PowMod(i \div 2, den)) % den

\* The first k bits after the binary point of r / den, r < den: long division.
DivBits(r, den, k) ==
    [i \in 1 .. k |-> (2 * ((r * PowMod(i - 1, den)) % den)) \div den]

\* The float64 of the literal num / den: the nearest float64.
FloatOf(num, den) ==
    RoundFloat(BitsOf(num \div den) \o DivBits(num % den, den, 2 * Float64Bits),
               -(2 * Float64Bits),
               ((num % den) * PowMod(2 * Float64Bits, den)) % den # 0)

\* a + b in float64.
FloatAddAt(a, b, e) ==
    RoundFloat(AddPadded(a.m \o Zeros(a.e - e), b.m \o Zeros(b.e - e)), e, FALSE)

FloatAdd(a, b) ==
    IF a.m = <<>> THEN b
    ELSE IF b.m = <<>> THEN a
    ELSE FloatAddAt(a, b, IF a.e < b.e THEN a.e ELSE b.e)

\* n * a in float64, n a non-negative integer (exact as a float64).
FloatMulInt(n, a) == RoundFloat(MulBits(a.m, BitsOf(n), Len(BitsOf(n))), a.e, FALSE)

\* int(a): the integer part.
FloatToInt(a) ==
    IF a.m = <<>> \/ Len(a.m) + a.e <= 0 THEN 0
    ELSE IF a.e >= 0 THEN IntOfBits(a.m \o Zeros(a.e))
    ELSE IntOfBits(SubSeq(a.m, 1, Len(a.m) + a.e))

\* ------------------------------------------------------------ relative sizes
\* A relative size is the decimal literal k / SizeDen a caller writes, held as k;
\* sizes = np.array(sizes) holds the float64 nearest to it.
SizeDen == 10

\* The largest number of vertices split_from_mask_stratified is given.
MaxCount == 5

\* The float64 values of the literals, evaluated once (@@ gives an explicit function).
SizeFloats == [k \in 0 .. SizeDen |-> FloatOf(k, SizeDen)] @@ <<>>

\* src/data/util.py:377  np.array(sizes)[i - 1]
SizeFloat(sizes, i) ==
    IF sizes[i] \in DOMAIN SizeFloats THEN SizeFloats[sizes[i]] ELSE FloatOf(sizes[i], SizeDen)

\* src/data/util.py:380  np.cumsum(sizes)[i - 1]: the float64 sum of the sizes up to i,
\* added one after the other.
RECURSIVE Cumsum(_, _)
Cumsum(sizes, i) ==
    IF i = 1 THEN SizeFloat(sizes, 1)
    ELSE FloatAdd(Cumsum(sizes, i - 1), SizeFloat(sizes, i))

\* src/data/util.py:380-381  np.cumsum(sizes) with the last endpoint set to 1.0
CumsumEndpoints(sizes) ==
    [i \in 1 .. Len(sizes) |->
        IF i = Len(sizes) THEN FloatOf(1, 1) ELSE Cumsum(sizes, i)]

\* sizes.sum() is within np.allclose of 1.0 (rtol 1e-5, atol 1e-8): the rounding of a
\* float64 sum of a few sizes is far below the tolerance and one unit of the literals
\* far above it, so the literals decide.
SeqSum(sizes) ==
    LET RECURSIVE sum(_)
        sum(k) == IF k = 0 THEN 0 ELSE sizes[k] + sum(k - 1)
    IN sum(Len(sizes))

\* The lists of sizes that sum to 1.0, of up to three portions.
UnitSizeLists ==
    UNION {{sizes \in [1 .. k -> 0 .. SizeDen] : SeqSum(sizes) = SizeDen} : k \in 1 .. 3}

\* The endpoints of the lists of sizes of the model, evaluated once.
EndpointsTable == [sizes \in UnitSizeLists |-> CumsumEndpoints(sizes)] @@ <<>>

Endpoints(sizes) ==
    IF sizes \in DOMAIN EndpointsTable THEN EndpointsTable[sizes] ELSE CumsumEndpoints(sizes)

\* src/data/util.py:390  int(idxs.shape[0] * endpoint): the float64 product, truncated.
EndIdxOf(n, endpoint) == FloatToInt(FloatMulInt(n, endpoint))

\* The end indices for the endpoints and the counts of the model, evaluated once.
EndIdxTable ==
    [c \in (0 .. (IF MaxN > MaxCount THEN MaxN ELSE MaxCount))
            \X UNION {{EndpointsTable[sizes][i] : i \in 1 .. Len(sizes)} :
                         sizes \in UnitSizeLists}
        |-> EndIdxOf(c[1], c[2])] @@ <<>>

EndIdx(n, endpoint) ==
    IF <<n, endpoint>> \in DOMAIN EndIdxTable THEN EndIdxTable[<<n, endpoint>>]
    ELSE EndIdxOf(n, endpoint)

\* src/data/util.py:388-394  the chunk columns of one label: the set of <<position, column>>.
RECURSIVE ChunksFrom(_, _, _, _)
ChunksFrom(idxs, endpoints, set_idx, start_idx) ==
    IF set_idx >= Len(endpoints) THEN {}
    ELSE LET end_idx == EndIdx(Len(idxs), endpoints[set_idx + 1])
         IN {<<p, set_idx>> : p \in Slice(idxs, start_idx, end_idx)}
            \cup ChunksFrom(idxs, endpoints, set_idx + 1, end_idx)

\* src/data/util.py:384-394  the loop over the labels of np.unique(y), in ascending order;
\* acc holds the entries set so far and the generator.
RECURSIVE SplitLabels(_, _, _, _, _)
SplitLabels(labels, mask, y, endpoints, acc) ==
    IF labels = <<>> THEN acc
    ELSE LET idxs == SortedInts({p \in DOMAIN y : y[p] = Head(labels) /\ mask[p]})
             sh == Shuffle(idxs, acc.rng)
         IN SplitLabels(Tail(labels), mask, y, endpoints,
                        [set |-> acc.set \cup ChunksFrom(sh.idxs, endpoints, 0, 0),
                         rng |-> sh.rng])

\* src/data/util.py:396-399  the three final assertions and the return; entries is the
\* set of <<position, column>> set in split_mask.
SplitReturn(mask, y, k, entries, rng) ==
    IF \/ Cardinality(entries) # MaskSum(mask)
       \/ \E p \in DOMAIN y : Cardinality({c \in Idx(k) : <<p, c>> \in entries}) > 1
       \/ \E p \in DOMAIN y : ~mask[p] /\ \E c \in Idx(k) : <<p, c>> \in entries
    THEN [raised |-> "AssertionError", rng |-> rng]
    ELSE [split_mask |-> [p \in DOMAIN y |-> [c \in Idx(k) |-> <<p, c>> \in entries]],
          rng |-> rng]

\* src/data/util.py:383-399
SplitFrom(mask, y, k, r) == SplitReturn(mask, y, k, r.set, r.rng)

\* src/data/util.py:354  returns split_mask and the generator as the call leaves it
\* (the three final assertions fail after the generator was used).
split_from_mask_stratified(mask, y, sizes, rng) ==
    IF DOMAIN mask # DOMAIN y THEN Raise("AssertionError")
    ELSE IF SeqSum(sizes) # SizeDen THEN Raise("AssertionError")
    ELSE SplitFrom(mask, y, Len(sizes),
                   SplitLabels(SortedInts(Unique(y)), mask, y, Endpoints(sizes),
                               [set |-> {}, rng |-> rng]))

\* ---------------------------------------------------------- stratified_split
\* src/data/util.py:425  np.random.RandomState(seed): the state is given by the seed.
RandomState(seed) == seed % RngModulus

\* src/data/util.py:423-427  mask[:, split_idx, :] = split.T for the split of every seed;
\* a split that raised ends the call.
StratifiedReturn(ys, seeds, sizes, splits) ==
    IF \E i \in 1 .. Len(splits) : IsRaised(splits[i]) THEN Raise("AssertionError")
    ELSE [mask |-> [c \in Idx(Len(sizes)) |->
                       [split_idx \in Idx(Len(seeds)) |->
                           [p \in DOMAIN ys |-> splits[split_idx + 1].split_mask[p][c]]]]]

\* The loop with one generator for all seeds: made from the first seed and passed on
\* from split to split.
RECURSIVE SplitsShared(_, _, _, _, _)
SplitsShared(ys, seeds, sizes, split_idx, rng) ==
    IF split_idx >= Len(seeds) THEN <<>>
    ELSE LET split == split_from_mask_stratified([p \in DOMAIN ys |-> TRUE], ys, sizes, rng)
         IN <<split>> \o SplitsShared(ys, seeds, sizes, split_idx + 1, split.rng)

\* Mutant of stratified_split: the generator is not made anew for every seed.
stratified_split_shared_rng(ys, seeds, sizes) ==
    IF SeqSum(sizes) # SizeDen THEN Raise("AssertionError")
    ELSE StratifiedReturn(ys, seeds, sizes,
             IF seeds = <<>> THEN <<>>
             ELSE SplitsShared(ys, seeds, sizes, 0, RandomState(seeds[1])))

\* src/data/util.py:424-426  the loop over enumerate(seeds), from split_idx on: every
\* split is made with a generator of its own.
RECURSIVE SplitsFrom(_, _, _, _)
SplitsFrom(ys, seeds, sizes, split_idx) ==
    IF split_idx >= Len(seeds) THEN <<>>
    ELSE <<split_from_mask_stratified([p \in DOMAIN ys |-> TRUE], ys, sizes,
                                      RandomState(seeds[split_idx + 1]))>>
         \o SplitsFrom(ys, seeds, sizes, split_idx + 1)

\* src/data/util.py:403
stratified_split(ys, seeds, sizes) ==
    IF SeqSum(sizes) # SizeDen THEN Raise("AssertionError")
    ELSE StratifiedReturn(ys, seeds, sizes, SplitsFrom(ys, seeds, sizes, 0))

\* ------------------------------------------------- objects and references
\* A frame holds the objects (h, a sequence: the reference of an object is its index) and
\* the local names of a call, each bound to a reference. "name = new value" binds the
\* name to a new object (x = x[mask], util.py:592); "name[...] = value" and "name &= ..."
\* write into the object the name is bound to (mask[mask] &= lcc_mask, util.py:701).
\* Mutant of Bind: a name that is already bound has its object overwritten.
Bind_in_place(f, name, v) ==
    IF name \in DOMAIN f
    THEN [f EXCEPT !.h = [f.h EXCEPT ![f[name]] = v]]
    ELSE [n \in DOMAIN f \cup {name} |->
             IF n = "h" THEN Append(f.h, v) ELSE IF n = name THEN Len(f.h) + 1 ELSE f[n]]

Bind(f, name, v) ==
    [n \in DOMAIN f \cup {name} |->
        IF n = "h" THEN Append(f.h, v) ELSE IF n = name THEN Len(f.h) + 1 ELSE f[n]]

Write(f, name, v) == [f EXCEPT !.h = [f.h EXCEPT ![f[name]] = v]]

Val(f, name) == f.h[f[name]]

\* The frame of a call that raised: the objects as the call left them.
Failed(f, e) == [raised |-> e, h |-> f.h]

\* src/data/util.py:592-598  x, y, edge_index and vertex_to_idx are bound to the new
\* objects the selection r made.
SelectIdxsBinds(f, r) ==
    Bind(Bind(Bind(Bind(f, "x", r.x), "y", r.y), "edge_index", r.edge_index),
         "vertex_to_idx", r.vertex_to_idx)

\* src/data/util.py:591-599  graph_select_idxs with the mask bound to the name mask.
SelectIdxsIn(f, mask) ==
    SelectIdxsBinds(f, graph_select_idxs(Val(f, mask), Val(f, "x"), Val(f, "edge_index"),
                                         Val(f, "y"), Val(f, "vertex_to_idx")))

\* src/data/util.py:448-451, 530  the symmetrized edge list r is a new array.
SymmetricBinds(f, r) ==
    IF IsRaised(r) THEN Failed(f, r.raised) ELSE Bind(f, "edge_index", r.edge_index)

\* src/data/util.py:480-486  labels == label_lcc is a new mask where it is passed to
\* graph_select_idxs and a new one where it is returned; r is the component found.
LargestComponentBinds(f, r) ==
    IF IsRaised(r) THEN Failed(f, r.raised)
    ELSE Bind(SelectIdxsBinds(Bind(f, "lcc_mask", r.mask), r), "lcc_mask", r.mask)

LargestComponentIn(f) ==
    LargestComponentBinds(f, graph_get_largest_connected_component(
                                 Val(f, "x"), Val(f, "edge_index"), Val(f, "y"),
                                 Val(f, "vertex_to_idx")))

\* src/data/util.py:622-629  labels_new and label_to_idx_new are new objects, filled in
\* place by the loop; r is what the loop leaves in them.
RemapWrites(f, r) ==
    IF IsRaised(r) THEN Failed(f, r.raised)
    ELSE Write(Write(f, "labels_new", r.labels), "label_to_idx_new", r.label_to_idx)

RemapIn(f, remapping, undefined_label) ==
    RemapWrites(Bind(Bind(f, "labels_new",
                          [p \in DOMAIN Val(f, "labels") |-> undefined_label]),
                     "label_to_idx_new", <<>>),
                remap_labels(Val(f, "labels"), Val(f, "label_to_idx"), remapping,
                             undefined_label))

\* src/data/util.py:651-654
CompressIn(f) ==
    RemapIn(Bind(f, "compression", Compression(SortedInts(Unique(Val(f, "labels"))))),
            Compression(SortedInts(Unique(Val(f, "labels")))), -1)

\* src/data/util.py:702-703  y and label_to_idx are bound to the objects compress_labels
\* returned (r); without _compress_labels both names keep their objects.
CompressBinds(f, r) ==
    IF IsRaised(r) THEN Failed(f, r.raised)
    ELSE Bind(Bind(f, "y", r.labels), "label_to_idx", r.label_to_idx)

SelectLabelsCompressIn(f, compress) ==
    IF IsRaised(f) \/ ~compress THEN f
    ELSE CompressBinds(f, compress_labels(Val(f, "y"), Val(f, "label_to_idx")))

\* src/data/util.py:701  the component's mask is written into the object of mask.
MaskWritten(f) ==
    IF IsRaised(f) THEN f
    ELSE Write(f, "mask", MaskAndInner(Val(f, "mask"), Val(f, "lcc_mask")))

\* src/data/util.py:699-701
SelectLabelsConnectedIn(f, connected) ==
    IF connected THEN MaskWritten(LargestComponentIn(f)) ELSE f

\* src/data/util.py:694-705  mask is bound to the new array get_label_mask returns.
SelectLabelsIn(f, select_labels, connected, compress) ==
    SelectLabelsCompressIn(
        SelectLabelsConnectedIn(
            SelectIdxsIn(Bind(f, "mask", get_label_mask(Val(f, "y"), select_labels)),
                         "mask"),
            connected),
        compress)

\* src/data/util.py:540-546  mask is a new array of ones, written in place for every
\* underrepresented class, and the graph is selected by it.
NormalizePruneIn(f, min_class_count) ==
    IF IsRaised(f) THEN f
    ELSE SelectIdxsIn(
             Write(Bind(f, "mask", [p \in DOMAIN Val(f, "y") |-> TRUE]), "mask",
                   [p \in DOMAIN Val(f, "y") |->
                       Val(f, "y")[p] \notin Underrepresented(Val(f, "y"), min_class_count)]),
             "mask")

RECURSIVE NormalizeLoopIn(_, _, _)

\* src/data/util.py:549-552
NormalizeNextIn(f, n, min_class_count) ==
    IF IsRaised(f) \/ Size(Val(f, "x")) = n THEN f
    ELSE NormalizeLoopIn(f, Size(Val(f, "x")), min_class_count)

\* src/data/util.py:534-552
NormalizeLoopIn(f, n, min_class_count) ==
    IF IsRaised(f) \/ ~(n > 0) THEN f
    ELSE NormalizeNextIn(NormalizePruneIn(LargestComponentIn(f), min_class_count),
                         n, min_class_count)

\* src/data/util.py:555-560  label_to_idx is bound to a new dict and y to a new array of
\* -1, which is then written in place; fix is what "Fix label_to_idx" computes.
NormalizeFixIn(f, fix) ==
    IF \E p \in DOMAIN fix.y : ~(fix.y[p] >= 0)
    THEN Failed(Write(Bind(Bind(f, "label_to_idx", fix.label_to_idx),
                           "y", [p \in DOMAIN fix.y |-> -1]), "y", fix.y),
                "AssertionError")
    ELSE Write(Bind(Bind(f, "label_to_idx", fix.label_to_idx),
                    "y", [p \in DOMAIN fix.y |-> -1]), "y", fix.y)

NormalizeFixed(f) ==
    IF IsRaised(f) THEN f
    ELSE NormalizeFixIn(f, FixLabels(Val(f, "y"), Val(f, "label_to_idx")))

\* src/data/util.py:529-562
NormalizeIn(f, make_symmetric, min_class_count) ==
    NormalizeFixed(NormalizeLoopIn(
                       IF make_symmetric
                       THEN SymmetricBinds(f, graph_make_symmetric(Val(f, "edge_index")))
                       ELSE f,
                       Size(Val(f, "x")), min_class_count))

\* src/data/util.py:377-399  sizes, endpoints and split_mask are new arrays, written in
\* place (endpoints[-1] = 1.0, split_mask[idxs_mask, set_idx] = True); the shuffles
\* advance the generator the caller passed. r is the split made.
SplitIn(f, r) ==
    IF IsRaised(r) /\ "rng" \notin DOMAIN r THEN Failed(f, r.raised)
    ELSE IF IsRaised(r)
    THEN Failed(Write(Bind(Bind(Bind(f, "sizes", Val(f, "sizes")),
                                "endpoints", Endpoints(Val(f, "sizes"))),
                           "split_mask", [p \in DOMAIN Val(f, "y") |-> FALSE]),
                      "rng", r.rng), r.raised)
    ELSE Write(Write(Bind(Bind(Bind(f, "sizes", Val(f, "sizes")),
                               "endpoints", Endpoints(Val(f, "sizes"))),
                          "split_mask", [p \in DOMAIN Val(f, "y") |-> FALSE]),
                     "split_mask", r.split_mask),
               "rng", r.rng)

\* ------------------------------------------------------------ input graphs
\* The attribute row of the k-th vertex identifier, in units of 1e-8 (np.allclose has
\* atol = 1e-8): rows of different vertices are far apart.
AttrOf(k) == <<k * 1000>>

\* The edge lists of at most m columns over n vertices. Columns are drawn in
\* non-decreasing row-major order, duplicates allowed: no operation reads the order of
\* the columns (coo_matrix sums the entries of equal columns).
EdgeLists(n, m) ==
    LET pairs == Idx(n) \X Idx(n)
        key(e) == e[1] * n + e[2]
    IN UNION {{e \in [1 .. k -> pairs] :
                  \A i \in 1 .. (k - 1) : key(e[i]) <= key(e[i + 1])} : k \in 0 .. m}

\* The label index {"A": 0, "B": 1, ...} of k names.
LabelIndex(k) == [i \in 1 .. k |-> <<LabelNames[i], i - 1>>]

\* The well-formed graph of n vertices with the edges e and the labels l: vertex_to_idx
\* is a bijection onto 0..n-1 and every label has a name.
GraphOf(n, e, l) ==
    [x |-> [p \in Idx(n) |-> AttrOf(p + 1)],
     edge_index |-> e,
     y |-> l,
     vertex_to_idx |-> [v \in {VertexIds[p + 1] : p \in Idx(n)} |->
                           CHOOSE p \in Idx(n) : VertexIds[p + 1] = v],
     label_to_idx |-> LabelIndex(NumClasses)]

\* The well-formed graphs of n vertices: every edge endpoint is below n.
Graphs(n) ==
    {GraphOf(n, e, l) : e \in EdgeLists(n, MaxE), l \in [Idx(n) -> Idx(NumClasses)]}

InputGraphs == UNION {Graphs(n) : n \in 0 .. MaxN}

\* The graphs without edges: a label vector and its vertices.
LabelledVertices ==
    UNION {{GraphOf(n, <<>>, l) : l \in [Idx(n) -> Idx(NumClasses)]} : n \in 0 .. MaxN}

\* The relative sizes a caller passes, in units of 1 / SizeDen: up to three portions,
\* summing to 1.0 or falling short of it by one unit.
SplitCounts == {1, 2, 3}

SizeLists ==
    UNION {{sizes \in [1 .. k -> 0 .. SizeDen] :
                SeqSum(sizes) \in {SizeDen - 1, SizeDen}} : k \in SplitCounts}

\* The label indices a caller holds: distinct names with distinct ids from 0 .. top, in
\* any insertion order.
LabelIndices(names, top) ==
    UNION {{d \in [1 .. k -> names \X (0 .. top)] :
                \A i, j \in 1 .. k : i < j => (d[i][1] # d[j][1] /\ d[i][2] # d[j][2])} :
           k \in 0 .. Cardinality(names)}

BaseNames == {"A", "B", "C"}
TargetNames == {"B", "C", "D"}
MaxBaseId == 2
MaxTargetId == 5

BaseIndices == LabelIndices(BaseNames, MaxBaseId)

TargetIndices == LabelIndices(TargetNames, MaxTargetId)

\* The pairs of graphs handed to assert_integrity. The first graph has the vertices a, b.
FirstGraphs ==
    {GraphOf(2, e, l) : e \in EdgeLists(2, 1), l \in [Idx(2) -> Idx(NumClasses)]}

\* The position of a vertex identifier in VertexIds.
IdNumber(v) == CHOOSE k \in 1 .. Len(VertexIds) : VertexIds[k] = v

\* The label index with the ids of its first two names exchanged.
ExchangedIndex(label_to_idx) ==
    [i \in 1 .. Len(label_to_idx) |->
        <<label_to_idx[i][1],
          IF label_to_idx[i][2] = 0 THEN 1 ELSE IF label_to_idx[i][2] = 1 THEN 0
          ELSE label_to_idx[i][2]>>]

\* The second graph has one or two of the vertices a, b, c at any positions. The
\* attribute row of its position 0 is off by d units of 1e-8, its labels carry ids of
\* the index or the undefined label -1, and its index may name the ids differently or
\* hold a name more than the first graph's.
SecondGraphs ==
    UNION {{[x |-> [p \in Idx(n) |-> <<AttrOf(IdNumber(ids[p]))[1] + (IF p = 0 THEN d ELSE 0)>>],
             edge_index |-> e,
             y |-> l,
             vertex_to_idx |-> [v \in {ids[p] : p \in Idx(n)} |->
                                   CHOOSE p \in Idx(n) : ids[p] = v],
             label_to_idx |-> li] :
               ids \in {f \in [Idx(n) -> {"a", "b", "c"}] :
                           \A p, q \in Idx(n) : p # q => f[p] # f[q]},
               d \in {0, 1, 2},
               e \in EdgeLists(n, 1),
               l \in [Idx(n) -> {-1} \cup Idx(NumClasses)],
               li \in {LabelIndex(NumClasses), ExchangedIndex(LabelIndex(NumClasses)),
                       LabelIndex(NumClasses + 1)}} :
           n \in {1, 2}}

\* The edge lists of the undirected simple graphs over n vertices, both directions of
\* every edge listed, as graph_make_symmetric leaves them.
SymmetricEdgeLists(n) ==
    {NonzeroRowMajor([e \in Idx(n) \X Idx(n) |->
                         IF e \in U \/ <<e[2], e[1]>> \in U THEN 1 ELSE 0], n) :
        U \in SUBSET {e \in Idx(n) \X Idx(n) : e[1] < e[2]}}

\* The graphs two subgraphs are derived from: MaxN vertices, undirected or with at most
\* one directed edge (a self-loop included).
DeriveBases ==
    {GraphOf(MaxN, e, l) : e \in SymmetricEdgeLists(MaxN) \cup EdgeLists(MaxN, 1),
                           l \in [Idx(MaxN) -> Idx(NumClasses)]}

\* ------------------------------------------------------------------- state
VARIABLES
    graph,   \* the graph the caller holds: x, edge_index, y, vertex_to_idx, label_to_idx
    first,   \* a graph derived from it (or the first argument of assert_integrity)
    second,  \* another graph derived from it (or the second argument of assert_integrity)
    rng,     \* the state of the caller's np.random.RandomState
    call,    \* the call in progress or returned: its name and arguments
    ret      \* what the call returned (or raised)

vars == <<graph, first, second, rng, call, ret>>

NoCall == [fn |-> "none"]
NoRet == [none |-> TRUE]
NoGraph == [x |-> <<>>, edge_index |-> <<>>, y |-> <<>>, vertex_to_idx |-> <<>>,
            label_to_idx |-> <<>>]

\* ---------------------- specification Spec: one selection call on an input graph
Init ==
    /\ graph \in InputGraphs
    /\ first = NoGraph /\ second = NoGraph /\ rng = 0
    /\ call = NoCall
    /\ ret = NoRet

\* graph_select_idxs(mask, x, edge_index, y, vertex_to_idx)
CallSelectIdxs ==
    /\ call = NoCall
    /\ \E mask \in [Idx(Size(graph.x)) -> BOOLEAN] :
          /\ call' = [fn |-> "graph_select_idxs", mask |-> mask]
          /\ ret' = graph_select_idxs(mask, graph.x, graph.edge_index, graph.y,
                                      graph.vertex_to_idx)
    /\ UNCHANGED <<graph, first, second, rng>>

\* graph_get_largest_connected_component(x, edge_index, y, vertex_to_idx)
CallLargestComponent ==
    /\ call = NoCall
    /\ call' = [fn |-> "graph_get_largest_connected_component"]
    /\ ret' = graph_get_largest_connected_component(graph.x, graph.edge_index, graph.y,
                                                    graph.vertex_to_idx)
    /\ UNCHANGED <<graph, first, second, rng>>

Next == CallSelectIdxs \/ CallLargestComponent

Spec == Init /\ [][Next]_vars

\* --------------- specification SpecLabels: graph_select_labels on an input graph
CallSelectLabels ==
    /\ call = NoCall
    /\ \E select_labels \in SUBSET Idx(NumClasses), connected \in BOOLEAN, compress \in BOOLEAN :
          /\ call' = [fn |-> "graph_select_labels", select_labels |-> select_labels,
                      connected |-> connected, compress |-> compress]
          /\ ret' = graph_select_labels(graph.x, graph.edge_index, graph.y,
                                        graph.vertex_to_idx, graph.label_to_idx,
                                        select_labels, connected, compress)
    /\ UNCHANGED <<graph, first, second, rng>>

NextLabels == CallSelectLabels

SpecLabels == Init /\ [][NextLabels]_vars

\* -------- specification SpecNormalize: graph_normalize, then again on its result
\* The values of min_class_count: 0 disables the pruning.
MinClassCounts == {0, 2, 3}

CallNormalize ==
    /\ call = NoCall
    /\ \E make_symmetric \in BOOLEAN, min_class_count \in MinClassCounts :
          /\ call' = [fn |-> "graph_normalize", make_symmetric |-> make_symmetric,
                      min_class_count |-> min_class_count]
          /\ ret' = graph_normalize(graph.x, graph.edge_index, graph.y, graph.vertex_to_idx,
                                    graph.label_to_idx, make_symmetric, min_class_count, TRUE)
    /\ UNCHANGED <<graph, first, second, rng>>

\* The caller keeps the normalized graph and normalizes it again with the same options.
CallNormalizeAgain ==
    /\ call.fn = "graph_normalize"
    /\ ~IsRaised(ret)
    /\ graph' = ret
    /\ call' = [call EXCEPT !.fn = "graph_normalize again"]
    /\ ret' = graph_normalize(ret.x, ret.edge_index, ret.y, ret.vertex_to_idx,
                              ret.label_to_idx, call.make_symmetric, call.min_class_count, TRUE)
    /\ UNCHANGED <<first, second, rng>>

NextNormalize == CallNormalize \/ CallNormalizeAgain

SpecNormalize == Init /\ [][NextNormalize]_vars

\* ------ specification SpecSplit: split_from_mask_stratified with a seeded generator
InitSplit ==
    /\ graph \in LabelledVertices
    /\ first = NoGraph /\ second = NoGraph /\ rng = 0
    /\ call = NoCall
    /\ ret = NoRet

\* rng = np.random.RandomState(seed); split_from_mask_stratified(mask, y, sizes, rng)
CallSplit ==
    /\ call = NoCall
    /\ \E mask \in [Idx(Size(graph.y)) -> BOOLEAN], sizes \in SizeLists, seed \in Idx(RngModulus) :
          /\ call' = [fn |-> "split_from_mask_stratified", mask |-> mask, sizes |-> sizes,
                      seed |-> seed]
          /\ ret' = split_from_mask_stratified(mask, graph.y, sizes, seed)
          /\ rng' = IF "rng" \in DOMAIN ret' THEN ret'.rng ELSE seed
    /\ UNCHANGED <<graph, first, second>>

NextSplit == CallSplit

SpecSplit == InitSplit /\ [][NextSplit]_vars

\* ------------- specification SpecAlign: permute_label_to_idx_to_match on two indices
InitAlign ==
    /\ graph = NoGraph /\ first = NoGraph /\ second = NoGraph /\ rng = 0
    /\ call = NoCall
    /\ ret = NoRet

CallPermute ==
    /\ call = NoCall
    /\ \E base \in BaseIndices, target \in TargetIndices :
          /\ call' = [fn |-> "permute_label_to_idx_to_match",
                      label_to_idx_base |-> base, label_to_idx_target |-> target]
          /\ ret' = permute_label_to_idx_to_match(base, target)
    /\ UNCHANGED <<graph, first, second, rng>>

NextAlign == CallPermute

SpecAlign == InitAlign /\ [][NextAlign]_vars

\* -------------- specification SpecIntegrity: assert_integrity on a pair of graphs
InitIntegrity ==
    /\ graph = NoGraph /\ rng = 0
    /\ first \in FirstGraphs
    /\ second \in SecondGraphs
    /\ call = NoCall
    /\ ret = NoRet

CallAssertIntegrity ==
    /\ call = NoCall
    /\ \E vertex_subset \in BOOLEAN, label_subset \in BOOLEAN :
          /\ call' = [fn |-> "assert_integrity",
                      assert_second_is_vertex_subset |-> vertex_subset,
                      assert_second_is_label_subset |-> label_subset]
          /\ ret' = assert_integrity(first, second, vertex_subset, label_subset)
    /\ UNCHANGED <<graph, first, second, rng>>

NextIntegrity == CallAssertIntegrity

SpecIntegrity == InitIntegrity /\ [][NextIntegrity]_vars

\* ---- specification SpecDerive: two subgraphs derived from one graph, then compared
InitDerive ==
    /\ graph \in DeriveBases
    /\ first = graph /\ second = graph /\ rng = 0
    /\ call = NoCall
    /\ ret = NoRet

Sides == {"first", "second"}

Side(which) == IF which = "first" THEN first ELSE second

\* The caller keeps the result r of a selection, with the label index li, as one of its
\* two subgraphs.
Keep(which, r, li) ==
    LET g == [x |-> r.x, edge_index |-> r.edge_index, y |-> r.y,
              vertex_to_idx |-> r.vertex_to_idx, label_to_idx |-> li]
    IN /\ first' = (IF which = "first" THEN g ELSE first)
       /\ second' = (IF which = "second" THEN g ELSE second)
       /\ call' = NoCall
       /\ ret' = NoRet
       /\ UNCHANGED <<graph, rng>>

DeriveIdxs ==
    \E which \in Sides :
        \E mask \in [Idx(Size(Side(which).x)) -> BOOLEAN] :
            Keep(which,
                 graph_select_idxs(mask, Side(which).x, Side(which).edge_index,
                                   Side(which).y, Side(which).vertex_to_idx),
                 Side(which).label_to_idx)

DeriveComponent ==
    \E which \in Sides :
        \E r \in {graph_get_largest_connected_component(
                      Side(which).x, Side(which).edge_index, Side(which).y,
                      Side(which).vertex_to_idx)} :
            /\ ~IsRaised(r)
            /\ Keep(which, r, Side(which).label_to_idx)

DeriveLabels ==
    \E which \in Sides :
        \E select_labels \in SUBSET Idx(NumClasses), connected \in BOOLEAN, compress \in BOOLEAN :
            \E r \in {graph_select_labels(Side(which).x, Side(which).edge_index,
                                          Side(which).y, Side(which).vertex_to_idx,
                                          Side(which).label_to_idx,
                                          select_labels, connected, compress)} :
                /\ ~IsRaised(r)
                /\ Keep(which, r, r.label_to_idx)

\* assert_integrity(first, second, assert_second_is_vertex_subset=False,
\*                  assert_second_is_label_subset=False)
CheckDerived ==
    /\ call = NoCall
    /\ call' = [fn |-> "assert_integrity", assert_second_is_vertex_subset |-> FALSE,
                assert_second_is_label_subset |-> FALSE]
    /\ ret' = assert_integrity(first, second, FALSE, FALSE)
    /\ UNCHANGED <<graph, first, second, rng>>

NextDerive == DeriveComponent \/ DeriveLabels \/ DeriveIdxs \/ CheckDerived

SpecDerive == InitDerive /\ [][NextDerive]_vars

\* --- specification SpecNormalizeLoop: graph_normalize, one loop iteration per step
\* The locals of the call are fields of call: pc (the position in the function), g (x,
\* edge_index, y, vertex_to_idx), n, and for the observer the input vertex count N, the
\* number of iterations run and the vertex count before the latest iteration.
\* src/data/util.py:549  if x.shape[0] == n: break
LoopBreaks_never(count, n) == FALSE

LoopBreaks(count, n) == count = n

\* The observer's iteration counter stops counting here.
MaxIterations == MaxN + 3

\* src/data/util.py:529-533  the call record of graph_normalize on the graph g after the
\* symmetrization sym.
Entered(g, sym, make_symmetric, min_class_count) ==
    IF IsRaised(sym) THEN [fn |-> "graph_normalize", pc |-> "raised"]
    ELSE [fn |-> "graph_normalize", pc |-> "while",
          make_symmetric |-> make_symmetric,
          min_class_count |-> min_class_count,
          g |-> [x |-> g.x, edge_index |-> sym.edge_index, y |-> g.y,
                 vertex_to_idx |-> g.vertex_to_idx],
          n |-> Size(g.x), N |-> Size(g.x),
          iterations |-> 0, before |-> Size(g.x)]

Symmetrized(g, make_symmetric) ==
    IF make_symmetric THEN graph_make_symmetric(g.edge_index)
    ELSE [edge_index |-> g.edge_index]

EnterNormalize ==
    /\ call = NoCall
    /\ \E make_symmetric \in BOOLEAN, min_class_count \in MinClassCounts :
          /\ call' = Entered(graph, Symmetrized(graph, make_symmetric),
                             make_symmetric, min_class_count)
          /\ ret' = (IF IsRaised(Symmetrized(graph, make_symmetric))
                     THEN Symmetrized(graph, make_symmetric) ELSE NoRet)
    /\ UNCHANGED <<graph, first, second, rng>>

\* src/data/util.py:540-546  the removal of the underrepresented classes from lcc.
Pruned(lcc, min_class_count) ==
    graph_select_idxs([p \in DOMAIN lcc.y |->
                          lcc.y[p] \notin Underrepresented(lcc.y, min_class_count)],
                      lcc.x, lcc.edge_index, lcc.y, lcc.vertex_to_idx)

\* src/data/util.py:549-552  the end of an iteration that left the graph sel.
IterationEnds(c, count, sel) ==
    [c EXCEPT !.g = sel,
              !.before = Size(c.g.x),
              !.iterations = c.iterations + 1,
              !.pc = IF LoopBreaks(count, c.n) THEN "fix" ELSE "while",
              !.n = IF LoopBreaks(count, c.n) THEN c.n ELSE count]

IterationPrunes(c, sel) == IterationEnds(c, Size(sel.x), sel)

\* src/data/util.py:535-552  one iteration of the loop.
Iterate(c) ==
    IterationPrunes(c, Pruned(graph_get_largest_connected_component(
                                  c.g.x, c.g.edge_index, c.g.y, c.g.vertex_to_idx),
                              c.min_class_count))

\* src/data/util.py:534  while n > 0: the iteration counter is the observer's.
LoopRuns(c) == c.pc = "while" /\ c.n > 0 /\ c.iterations < MaxIterations

\* The call records at the head of the loop, from the record c on.
RECURSIVE LoopHeads(_)
LoopHeads(c) == IF LoopRuns(c) THEN {c} \cup LoopHeads(Iterate(c)) ELSE {}

\* Iterate on every record the loop can be at, from every input graph and argument:
\* an iteration is a function of the locals alone, and it is evaluated once.
Iterations ==
    [c \in UNION {LoopHeads(Entered(g, Symmetrized(g, make_symmetric),
                                    make_symmetric, min_class_count)) :
                    g \in InputGraphs, make_symmetric \in BOOLEAN,
                    min_class_count \in MinClassCounts}
       |-> Iterate(c)]

LoopIteration ==
    /\ call.fn = "graph_normalize" /\ LoopRuns(call)
    /\ call' = Iterations[call]
    /\ ret' = NoRet
    /\ UNCHANGED <<graph, first, second, rng>>

\* src/data/util.py:534  while n > 0: the loop is left when the graph is empty.
LoopExit ==
    /\ call.fn = "graph_normalize" /\ call.pc = "while"
    /\ ~(call.n > 0)
    /\ call' = [call EXCEPT !.pc = "fix"]
    /\ ret' = NoRet
    /\ UNCHANGED <<graph, first, second, rng>>

\* src/data/util.py:554-562
FixAndReturn ==
    /\ call.fn = "graph_normalize" /\ call.pc = "fix"
    /\ call' = [call EXCEPT !.pc = "done"]
    /\ ret' = NormalizeFix(call.g, graph.label_to_idx)
    /\ UNCHANGED <<graph, first, second, rng>>

NextNormalizeLoop == EnterNormalize \/ LoopIteration \/ LoopExit \/ FixAndReturn

\* The interpreter keeps running the call: a step that can be taken is taken.
SpecNormalizeLoop == Init /\ [][NextNormalizeLoop]_vars /\ WF_vars(NextNormalizeLoop)

\* ----- specification SpecSymmetric: graph_make_symmetric, then again on its result
CallMakeSymmetric ==
    /\ call = NoCall
    /\ call' = [fn |-> "graph_make_symmetric", edge_index |-> graph.edge_index]
    /\ ret' = graph_make_symmetric(graph.edge_index)
    /\ UNCHANGED <<graph, first, second, rng>>

\* The caller symmetrizes the edge list it got back.
CallMakeSymmetricAgain ==
    /\ call.fn = "graph_make_symmetric"
    /\ ~IsRaised(ret)
    /\ call' = [fn |-> "graph_make_symmetric again", edge_index |-> ret.edge_index]
    /\ ret' = graph_make_symmetric(ret.edge_index)
    /\ UNCHANGED <<graph, first, second, rng>>

NextSymmetric == CallMakeSymmetric \/ CallMakeSymmetricAgain

SpecSymmetric == Init /\ [][NextSymmetric]_vars

\* ----- specification SpecSequence: any sequence of the five graph operations, each
\* applied to the graph the one before returned. An operation that raises returns no
\* graph, and the sequence goes on from the graph it was given.
ThenSelectIdxs ==
    \E mask \in [DOMAIN graph.x -> BOOLEAN] :
        \E r \in {graph_select_idxs(mask, graph.x, graph.edge_index, graph.y,
                                    graph.vertex_to_idx)} :
            /\ graph' = [graph EXCEPT !.x = r.x, !.edge_index = r.edge_index, !.y = r.y,
                                      !.vertex_to_idx = r.vertex_to_idx]
            /\ call' = [fn |-> "graph_select_idxs", mask |-> mask, parent |-> graph]
            /\ ret' = NoRet
            /\ UNCHANGED <<first, second, rng>>

ThenMakeSymmetric ==
    \E r \in {graph_make_symmetric(graph.edge_index)} :
        /\ ~IsRaised(r)
        /\ graph' = [graph EXCEPT !.edge_index = r.edge_index]
        /\ call' = [fn |-> "graph_make_symmetric", parent |-> graph]
        /\ ret' = NoRet
        /\ UNCHANGED <<first, second, rng>>

ThenLargestComponent ==
    \E r \in {graph_get_largest_connected_component(graph.x, graph.edge_index, graph.y,
                                                    graph.vertex_to_idx)} :
        /\ ~IsRaised(r)
        /\ graph' = [graph EXCEPT !.x = r.x, !.edge_index = r.edge_index, !.y = r.y,
                                  !.vertex_to_idx = r.vertex_to_idx]
        /\ call' = [fn |-> "graph_get_largest_connected_component", parent |-> graph]
        /\ ret' = NoRet
        /\ UNCHANGED <<first, second, rng>>

ThenSelectLabels ==
    \E select_labels \in SUBSET Idx(NumClasses), connected \in BOOLEAN, compress \in BOOLEAN :
        \E r \in {graph_select_labels(graph.x, graph.edge_index, graph.y,
                                      graph.vertex_to_idx, graph.label_to_idx,
                                      select_labels, connected, compress)} :
            /\ ~IsRaised(r)
            /\ graph' = [graph EXCEPT !.x = r.x, !.edge_index = r.edge_index, !.y = r.y,
                                      !.vertex_to_idx = r.vertex_to_idx,
                                      !.label_to_idx = r.label_to_idx]
            /\ call' = [fn |-> "graph_select_labels", parent |-> graph]
            /\ ret' = NoRet
            /\ UNCHANGED <<first, second, rng>>

ThenNormalize ==
    \E make_symmetric \in BOOLEAN, min_class_count \in MinClassCounts :
        \E r \in {graph_normalize(graph.x, graph.edge_index, graph.y, graph.vertex_to_idx,
                                  graph.label_to_idx, make_symmetric, min_class_count,
                                  TRUE)} :
            /\ ~IsRaised(r)
            /\ graph' = [graph EXCEPT !.x = r.x, !.edge_index = r.edge_index, !.y = r.y,
                                      !.vertex_to_idx = r.vertex_to_idx,
                                      !.label_to_idx = r.label_to_idx]
            /\ call' = [fn |-> "graph_normalize", parent |-> graph]
            /\ ret' = NoRet
            /\ UNCHANGED <<first, second, rng>>

NextSequence ==
    \/ ThenSelectIdxs
    \/ ThenMakeSymmetric
    \/ ThenLargestComponent
    \/ ThenSelectLabels
    \/ ThenNormalize

SpecSequence == Init /\ [][NextSequence]_vars

\* ------------------- specification SpecSample: sample_from_mask on a boolean mask
\* The masks have up to MaxMask positions.
MaxMask == 4

\* The generator the call works on: the caller's, or a fresh np.random.RandomState()
\* when rng is None (util.py:126-127), whose state is any.
InitSample ==
    /\ graph = NoGraph /\ first = NoGraph /\ second = NoGraph
    /\ rng \in Idx(RngModulus)
    /\ call = NoCall
    /\ ret = NoRet

\* sample_from_mask(mask, num_samples, rng): num_samples is a count, zero and counts
\* above the mask's size included.
CallSample ==
    /\ call = NoCall
    /\ \E n \in 0 .. MaxMask, supplied \in BOOLEAN, fresh \in Idx(RngModulus) :
          \E mask \in [Idx(n) -> BOOLEAN], num_samples \in 0 .. (MaxMask + 1) :
              /\ call' = [fn |-> "sample_from_mask", mask |-> mask,
                          num_samples |-> num_samples, supplied |-> supplied,
                          rng |-> rng]
              /\ ret' = sample_from_mask(mask, num_samples,
                                         IF supplied THEN rng ELSE fresh)
              /\ rng' = IF supplied THEN ret'.rng ELSE rng
    /\ UNCHANGED <<graph, first, second>>

NextSample == CallSample

SpecSample == InitSample /\ [][NextSample]_vars

\* --------- specification SpecStratified: stratified_split on a label vector
\* The seed lists have up to MaxSeeds seeds.
MaxSeeds == 2

SeedLists == UNION {[1 .. k -> Idx(RngModulus)] : k \in 0 .. MaxSeeds}

CallStratifiedSplit ==
    /\ call = NoCall
    /\ \E seeds \in SeedLists, sizes \in SizeLists :
          /\ call' = [fn |-> "stratified_split", seeds |-> seeds, sizes |-> sizes]
          /\ ret' = stratified_split(graph.y, seeds, sizes)
    /\ UNCHANGED <<graph, first, second, rng>>

NextStratified == CallStratifiedSplit

SpecStratified == InitSplit /\ [][NextStratified]_vars

\* ------ specification SpecObjects: one call on the caller's objects, and a change in
\* place of an object of the graph the call returned
\* The frame at the entry of a call on the graph g: the parameters are bound to the
\* caller's objects.
Frame(g) ==
    Bind(Bind(Bind(Bind(Bind([h |-> <<>>], "x", g.x), "edge_index", g.edge_index),
                   "y", g.y), "vertex_to_idx", g.vertex_to_idx),
         "label_to_idx", g.label_to_idx)

\* The call: its function, its arguments that are no objects, the frame at its entry and
\* the names it returns.
Called(fn, args, before, returns) ==
    [fn |-> fn, args |-> args, before |-> before, returns |-> returns]

GraphNames == {"x", "edge_index", "y", "vertex_to_idx"}

ObjSelectIdxs ==
    /\ call = NoCall
    /\ \E mask \in [DOMAIN graph.x -> BOOLEAN] :
          /\ call' = Called("graph_select_idxs", <<>>, Bind(Frame(graph), "mask", mask),
                            GraphNames)
          /\ ret' = SelectIdxsIn(Bind(Frame(graph), "mask", mask), "mask")
    /\ UNCHANGED <<graph, first, second, rng>>

ObjLargestComponent ==
    /\ call = NoCall
    /\ call' = Called("graph_get_largest_connected_component", <<>>, Frame(graph),
                      GraphNames \cup {"lcc_mask"})
    /\ ret' = LargestComponentIn(Frame(graph))
    /\ UNCHANGED <<graph, first, second, rng>>

ObjMakeSymmetric ==
    /\ call = NoCall
    /\ call' = Called("graph_make_symmetric", <<>>, Frame(graph), {"edge_index"})
    /\ ret' = SymmetricBinds(Frame(graph), graph_make_symmetric(graph.edge_index))
    /\ UNCHANGED <<graph, first, second, rng>>

ObjNormalize ==
    /\ call = NoCall
    /\ \E make_symmetric \in BOOLEAN, min_class_count \in MinClassCounts :
          /\ call' = Called("graph_normalize", <<make_symmetric, min_class_count>>, Frame(graph),
                            GraphNames \cup {"label_to_idx"})
          /\ ret' = NormalizeIn(Frame(graph), make_symmetric, min_class_count)
    /\ UNCHANGED <<graph, first, second, rng>>

ObjSelectLabels ==
    /\ call = NoCall
    /\ \E select_labels \in SUBSET Idx(NumClasses), connected \in BOOLEAN, compress \in BOOLEAN :
          /\ call' = Called("graph_select_labels", <<select_labels, connected, compress>>,
                            Frame(graph),
                            GraphNames \cup {"label_to_idx", "mask"})
          /\ ret' = SelectLabelsIn(Frame(graph), select_labels, connected, compress)
    /\ UNCHANGED <<graph, first, second, rng>>

\* remap_labels(labels, label_to_idx, remapping) and compress_labels(labels,
\* label_to_idx) on the label vector and the label index of a graph.
LabelFrame(g) == Bind(Bind([h |-> <<>>], "labels", g.y), "label_to_idx", g.label_to_idx)

ObjRemapLabels ==
    /\ call = NoCall
    /\ graph.edge_index = <<>>
    /\ \E remapping \in {<<>>, <<<<0, 1>>, <<1, 0>>>>, <<<<1, 0>>>>, <<<<2, 0>>>>} :
          /\ call' = Called("remap_labels", <<>>, Bind(LabelFrame(graph), "remapping", remapping),
                            {"labels_new", "label_to_idx_new"})
          /\ ret' = RemapIn(Bind(LabelFrame(graph), "remapping", remapping), remapping, -1)
    /\ UNCHANGED <<graph, first, second, rng>>

ObjCompressLabels ==
    /\ call = NoCall
    /\ graph.edge_index = <<>>
    /\ call' = Called("compress_labels", <<>>, LabelFrame(graph),
                      {"labels_new", "label_to_idx_new", "compression"})
    /\ ret' = CompressIn(LabelFrame(graph))
    /\ UNCHANGED <<graph, first, second, rng>>

\* split_from_mask_stratified(mask, y, sizes, rng) on the label vector of a graph.
SplitFrame(g, mask, sizes, seed) ==
    Bind(Bind(Bind(Bind([h |-> <<>>], "mask", mask), "y", g.y), "sizes", sizes),
         "rng", seed)

ObjSplit ==
    /\ call = NoCall
    /\ graph.edge_index = <<>>
    /\ \E mask \in [DOMAIN graph.y -> BOOLEAN], sizes \in SizeLists, seed \in {0, 1} :
          /\ call' = Called("split_from_mask_stratified", <<>>,
                            SplitFrame(graph, mask, sizes, seed), {"split_mask"})
          /\ ret' = SplitIn(SplitFrame(graph, mask, sizes, seed),
                            split_from_mask_stratified(mask, graph.y, sizes, seed))
    /\ UNCHANGED <<graph, first, second, rng>>

\* A change in place of the object v: an entry of an array or of the edge list takes
\* another value, a dict gets another key.
Changed(name, v) ==
    IF name = "vertex_to_idx" THEN {[k \in DOMAIN v \cup {"z"} |-> IF k = "z" THEN 0 ELSE v[k]]}
    ELSE IF name = "label_to_idx" THEN {Append(v, <<"Z", Len(v)>>)}
    ELSE IF name = "edge_index" THEN {[v EXCEPT ![i] = <<v[i][2], v[i][1] + 1>>] : i \in DOMAIN v}
    ELSE IF name = "x" THEN {[v EXCEPT ![p] = <<v[p][1] + 1>>] : p \in DOMAIN v}
    ELSE IF name = "y" THEN {[v EXCEPT ![p] = v[p] + 1] : p \in DOMAIN v}
    ELSE {[v EXCEPT ![p] = ~v[p]] : p \in DOMAIN v}

\* The holder of the derived graph changes one of its arrays or indices in place.
ChangeDerived ==
    /\ call.fn \in {"graph_select_idxs", "graph_get_largest_connected_component",
                    "graph_select_labels", "graph_normalize"}
    /\ ~IsRaised(ret)
    /\ \E name \in call.returns \ {"lcc_mask", "mask"} :
          \E v \in Changed(name, Val(ret, name)) :
              /\ ret' = Write(ret, name, v)
              /\ call' = [call EXCEPT !.fn = "changed", !.returns = {name}]
    /\ UNCHANGED <<graph, first, second, rng>>

NextObjects ==
    \/ ChangeDerived
    \/ ObjSelectIdxs
    \/ ObjLargestComponent
    \/ ObjMakeSymmetric
    \/ ObjNormalize
    \/ ObjSelectLabels
    \/ ObjRemapLabels
    \/ ObjCompressLabels
    \/ ObjSplit

SpecObjects == Init /\ [][NextObjects]_vars

\* ---- specification SpecSplitCounts: split_from_mask_stratified on MaxCount vertices
\* The label vectors of MaxCount vertices, as many as five of one class.
InitSplitCounts ==
    /\ graph \in {[NoGraph EXCEPT !.y = l] : l \in [Idx(MaxCount) -> Idx(NumClasses)]}
    /\ first = NoGraph /\ second = NoGraph /\ rng = 0
    /\ call = NoCall
    /\ ret = NoRet

\* The masks that leave out at most one vertex.
CountMasks == {mask \in [Idx(MaxCount) -> BOOLEAN] : MaskSum(mask) >= MaxCount - 1}

CallSplitCounts ==
    /\ call = NoCall
    /\ \E mask \in CountMasks, sizes \in SizeLists, seed \in {0, 1} :
          /\ call' = [fn |-> "split_from_mask_stratified", mask |-> mask, sizes |-> sizes,
                      seed |-> seed]
          /\ ret' = split_from_mask_stratified(mask, graph.y, sizes, seed)
          /\ rng' = IF "rng" \in DOMAIN ret' THEN ret'.rng ELSE seed
    /\ UNCHANGED <<graph, first, second>>

NextSplitCounts == CallSplitCounts

SpecSplitCounts == InitSplitCounts /\ [][NextSplitCounts]_vars

\* ---- specification SpecRelabel: remap_labels, compress_labels, graph_select_labels
\* and graph_normalize on graphs whose label index names three ids out of 0 .. RelabelTop
\* Largest label id of these label indices.
RelabelTop == 3

\* The label indices of the names A, B, C (inserted in this order) with distinct ids.
RelabelIndices ==
    {[i \in 1 .. 3 |-> <<LabelNames[i], ids[i]>>] :
        ids \in {f \in [1 .. 3 -> 0 .. RelabelTop] :
                    f[1] # f[2] /\ f[1] # f[3] /\ f[2] # f[3]}}

\* The graphs without edges or with one edge from the first to the last vertex, whose
\* labels are ids of the index or the undefined label -1, which has no name.
RelabelGraphs ==
    UNION {{[GraphOf(n, e, l) EXCEPT !.label_to_idx = d] :
               e \in {<<>>} \cup {<<<<0, n - 1>>>> : k \in 1 .. n},
               l \in [Idx(n) -> DictValues(d) \cup {-1}]} :
           n \in 0 .. MaxN, d \in RelabelIndices}

\* The remappings a caller passes: at most two old ids (named or not), each with a new
\* id or the undefined label.
Remappings ==
    UNION {{m \in [1 .. k -> (0 .. RelabelTop) \X (-1 .. 1)] :
               \A i, j \in 1 .. k : i < j => m[i][1] # m[j][1]} : k \in 0 .. 2}

InitRelabel ==
    /\ graph \in RelabelGraphs
    /\ first = NoGraph /\ second = NoGraph /\ rng = 0
    /\ call = NoCall
    /\ ret = NoRet

\* remap_labels(labels, label_to_idx, remapping, undefined_label)
CallRemapLabels ==
    /\ call = NoCall
    /\ graph.edge_index = <<>>
    /\ \E remapping \in Remappings, undefined_label \in {-1, RelabelTop + 1} :
          /\ call' = [fn |-> "remap_labels", remapping |-> remapping,
                      undefined_label |-> undefined_label]
          /\ ret' = remap_labels(graph.y, graph.label_to_idx, remapping, undefined_label)
    /\ UNCHANGED <<graph, first, second, rng>>

\* compress_labels(labels, label_to_idx)
CallCompressLabels ==
    /\ call = NoCall
    /\ graph.edge_index = <<>>
    /\ call' = [fn |-> "compress_labels"]
    /\ ret' = compress_labels(graph.y, graph.label_to_idx)
    /\ UNCHANGED <<graph, first, second, rng>>

\* graph_select_labels(x, edge_index, y, vertex_to_idx, label_to_idx, select_labels,
\* connected, _compress_labels)
CallSelectLabelsNamed ==
    /\ call = NoCall
    /\ \E select_labels \in SUBSET (DictValues(graph.label_to_idx) \cup {-1}),
          connected \in BOOLEAN, compress \in BOOLEAN :
          /\ call' = [fn |-> "graph_select_labels", select_labels |-> select_labels,
                      connected |-> connected, compress |-> compress]
          /\ ret' = graph_select_labels(graph.x, graph.edge_index, graph.y,
                                        graph.vertex_to_idx, graph.label_to_idx,
                                        select_labels, connected, compress)
    /\ UNCHANGED <<graph, first, second, rng>>

\* graph_normalize(x, edge_index, y, vertex_to_idx, label_to_idx, make_symmetric,
\* min_class_count=min_class_count)
CallNormalizeNamed ==
    /\ call = NoCall
    /\ \E make_symmetric \in BOOLEAN, min_class_count \in MinClassCounts :
          /\ call' = [fn |-> "graph_normalize", make_symmetric |-> make_symmetric,
                      min_class_count |-> min_class_count]
          /\ ret' = graph_normalize(graph.x, graph.edge_index, graph.y, graph.vertex_to_idx,
                                    graph.label_to_idx, make_symmetric, min_class_count, TRUE)
    /\ UNCHANGED <<graph, first, second, rng>>

NextRelabel ==
    CallRemapLabels \/ CallCompressLabels \/ CallSelectLabelsNamed \/ CallNormalizeNamed

SpecRelabel == InitRelabel /\ [][NextRelabel]_vars

\* ------------- specification SpecUniform: sample_uniformly with a seeded generator
\* Largest num_samples of a call.
MaxSamples == 2

\* The orders in which the set of the selected labels can yield its elements.
LabelOrders ==
    UNION {{o \in [1 .. k -> Idx(NumClasses)] : \A i, j \in 1 .. k : i < j => o[i] # o[j]} :
           k \in 0 .. NumClasses}

\* sample_uniformly(labels, select_lables, num_samples, mask, rng) on up to MaxMask
\* vertices; without rng the call works on a fresh generator, whose state is any.
CallSampleUniformly ==
    /\ call = NoCall
    /\ \E n \in 0 .. MaxMask, supplied \in BOOLEAN, fresh \in Idx(RngModulus) :
          \E labels \in [Idx(n) -> Idx(NumClasses)], mask \in [Idx(n) -> BOOLEAN],
             order \in LabelOrders, num_samples \in 0 .. MaxSamples :
              /\ call' = [fn |-> "sample_uniformly", labels |-> labels, mask |-> mask,
                          order |-> order, num_samples |-> num_samples,
                          supplied |-> supplied, rng |-> rng]
              /\ ret' = sample_uniformly(labels, order, num_samples, mask,
                                         IF supplied THEN rng ELSE fresh)
              /\ rng' = IF supplied THEN ret'.rng ELSE rng
    /\ UNCHANGED <<graph, first, second>>

NextUniform == CallSampleUniformly

SpecUniform == InitSample /\ [][NextUniform]_vars

\* ------------------------------------------------------------------ claims
\* The positions a mask selects, and the number of positions of S below p.
Selected(mask) == {p \in DOMAIN mask : mask[p]}

RankIn(S, p) == Cardinality({q \in S : q < p})

\* The positions joined to a position of S by a path over the edges E, read as undirected.
RECURSIVE Grow(_, _)
Grow(S, E) ==
    LET T == S \cup {e[2] : e \in {f \in E : f[1] \in S}}
               \cup {e[1] : e \in {f \in E : f[2] \in S}}
    IN IF T = S THEN S ELSE Grow(T, E)

\* The rows of a at the positions S, in ascending order of position, are the rows of b.
RowsAre(b, a, S) ==
    /\ DOMAIN b = Idx(Cardinality(S))
    /\ \A p \in S : b[RankIn(S, p)] = a[p]

\* C1 (as claimed): applying graph_normalize to the output of graph_normalize, with the
\* same make_symmetric and min_class_count, returns the same vertices at the same
\* positions, the same edge set, the same label vector and the same label index.
\* After CallNormalizeAgain, graph holds the first result and ret the second.
NormalizeIdempotent ==
    call.fn = "graph_normalize again" =>
        /\ ~IsRaised(ret)
        /\ ret.x = graph.x
        /\ ret.vertex_to_idx = graph.vertex_to_idx
        /\ EdgeSet(ret.edge_index) = EdgeSet(graph.edge_index)
        /\ ret.y = graph.y
        /\ ret.label_to_idx = graph.label_to_idx

\* C2: graph_select_idxs returns exactly mask.sum() attribute rows and labels, and row k
\* of the result is the attribute row and the label of the k-th selected position of the
\* input (x' = x[mask], y' = y[mask]).
MaskConservation ==
    call.fn = "graph_select_idxs" =>
        /\ ~IsRaised(ret)
        /\ Size(ret.x) = MaskSum(call.mask)
        /\ Size(ret.y) = MaskSum(call.mask)
        /\ RowsAre(ret.x, graph.x, Selected(call.mask))
        /\ RowsAre(ret.y, graph.y, Selected(call.mask))

\* C2 witness: a selection that drops a position below a kept one, with two labels kept.
MaskConservationWitness ==
    /\ call.fn = "graph_select_idxs"
    /\ \E p, q \in Selected(call.mask) : \E d \in DOMAIN call.mask :
          /\ ~call.mask[d] /\ d < p /\ p < q
          /\ graph.y[p] # graph.y[q] /\ graph.y[d] # graph.y[p]

\* C3: graph_get_largest_connected_component returns a connected subgraph that is a whole
\* component of the input and at least as large as every component of the input; the
\* returned mask marks exactly the kept positions, and the result is their selection.
LargestComponentMaximal ==
    (call.fn = "graph_get_largest_connected_component" /\ ~IsRaised(ret)) =>
        LET E == EdgeSet(graph.edge_index)
            kept == Selected(ret.mask)
        IN /\ DOMAIN ret.mask = DOMAIN graph.x
           /\ kept # {}
           /\ \A u \in kept : Grow({u}, E) = kept
           /\ \A v \in DOMAIN graph.x : Cardinality(Grow({v}, E)) <= Cardinality(kept)
           /\ \A i \in DOMAIN ret.x : Grow({i}, EdgeSet(ret.edge_index)) = DOMAIN ret.x
           /\ RowsAre(ret.x, graph.x, kept)
           /\ RowsAre(ret.y, graph.y, kept)
           /\ DOMAIN ret.vertex_to_idx
                = {v \in DOMAIN graph.vertex_to_idx : graph.vertex_to_idx[v] \in kept}
           /\ \A v \in DOMAIN ret.vertex_to_idx :
                 ret.vertex_to_idx[v] = RankIn(kept, graph.vertex_to_idx[v])

\* C3 witness: the largest component has two vertices and does not hold position 0.
LargestComponentWitness ==
    /\ call.fn = "graph_get_largest_connected_component"
    /\ ~IsRaised(ret)
    /\ Size(graph.x) = 3
    /\ Selected(ret.mask) = {1, 2}

\* C5: graph_select_labels returns a mask over the positions of the input graph with
\* x' = x[mask]; with connected=True a position is in the mask if and only if its label
\* is in select_labels and it lies in the largest component of the label-filtered
\* subgraph (a whole component of it, no smaller than any other); with connected=False
\* if and only if its label is in select_labels.
SelectLabelsMask ==
    (call.fn = "graph_select_labels" /\ ~IsRaised(ret)) =>
        LET F == {p \in DOMAIN graph.y : graph.y[p] \in call.select_labels}
            EF == {e \in EdgeSet(graph.edge_index) : e[1] \in F /\ e[2] \in F}
            kept == Selected(ret.mask)
        IN /\ DOMAIN ret.mask = DOMAIN graph.x
           /\ RowsAre(ret.x, graph.x, kept)
           /\ call.connected =>
                 /\ kept # {} /\ kept \subseteq F
                 /\ \A u \in kept : Grow({u}, EF) = kept
                 /\ \A v \in F : Cardinality(Grow({v}, EF)) <= Cardinality(kept)
           /\ ~call.connected => kept = F

\* C5 witness: connected=True, position 0 is filtered out by its label, and the largest
\* component of what is left is smaller than the label filter.
SelectLabelsWitness ==
    /\ call.fn = "graph_select_labels"
    /\ ~IsRaised(ret)
    /\ call.connected
    /\ graph.y[0] \notin call.select_labels
    /\ Cardinality({p \in DOMAIN graph.y : graph.y[p] \in call.select_labels}) = 2
    /\ Selected(ret.mask) = {1}

\* The number of columns of row p of a split mask that are set.
ColumnsSet(split_mask, p) == Cardinality({c \in DOMAIN split_mask[p] : split_mask[p][c]})

RECURSIVE TotalSet(_, _)
TotalSet(split_mask, n) ==
    IF n = 0 THEN 0 ELSE ColumnsSet(split_mask, n - 1) + TotalSet(split_mask, n - 1)

\* C4: for sizes that sum to 1.0, split_from_mask_stratified passes its final assertions
\* and returns an [N, len(sizes)] array whose number of true entries is mask.sum(), in
\* which no row has more than one true entry and no row outside mask has any: every
\* masked vertex is in exactly one split.
SplitCompleteExclusive ==
    (call.fn = "split_from_mask_stratified" /\ SeqSum(call.sizes) = SizeDen) =>
        /\ ~IsRaised(ret)
        /\ DOMAIN ret.split_mask = DOMAIN graph.y
        /\ \A p \in DOMAIN graph.y : DOMAIN ret.split_mask[p] = Idx(Len(call.sizes))
        /\ TotalSet(ret.split_mask, Size(graph.y)) = Cardinality(Selected(call.mask))
        /\ \A p \in DOMAIN graph.y :
              ColumnsSet(ret.split_mask, p) = (IF call.mask[p] THEN 1 ELSE 0)

\* C4 witness: three portions, one vertex outside the mask, and two masked vertices of
\* one label that land in the first and in the last portion.
SplitWitness ==
    /\ call.fn = "split_from_mask_stratified"
    /\ ~IsRaised(ret)
    /\ Len(call.sizes) = 3
    /\ \E p, q, d \in DOMAIN graph.y :
          /\ ~call.mask[d] /\ call.mask[p] /\ call.mask[q]
          /\ graph.y[p] = graph.y[q]
          /\ ret.split_mask[p][0] /\ ret.split_mask[q][2]

\* The label names two label indices share.
SharedNames(base, target) == DictKeys(base) \cap DictKeys(target)

\* C9: for every label name in both indices, the remapping sends the base id of the
\* name to the target id of the name.
PermuteMatchesTarget ==
    (call.fn = "permute_label_to_idx_to_match"
        /\ SharedNames(call.label_to_idx_base, call.label_to_idx_target) # {}) =>
        /\ ~IsRaised(ret)
        /\ \A name \in SharedNames(call.label_to_idx_base, call.label_to_idx_target) :
              \E i \in 1 .. Len(ret.remapping) :
                 \E b \in 1 .. Len(call.label_to_idx_base) :
                    \E t \in 1 .. Len(call.label_to_idx_target) :
                       /\ call.label_to_idx_base[b][1] = name
                       /\ call.label_to_idx_target[t][1] = name
                       /\ ret.remapping[i] = <<call.label_to_idx_base[b][2],
                                               call.label_to_idx_target[t][2]>>

\* C9 witness: two shared names whose base ids differ from their target ids, and a
\* base-only name.
PermuteWitness ==
    /\ call.fn = "permute_label_to_idx_to_match"
    /\ ~IsRaised(ret)
    /\ Len(call.label_to_idx_base) = 3
    /\ Cardinality(SharedNames(call.label_to_idx_base, call.label_to_idx_target)) = 2
    /\ \A name \in SharedNames(call.label_to_idx_base, call.label_to_idx_target) :
          DictGet(call.label_to_idx_base, name) # DictGet(call.label_to_idx_target, name)

\* C10: when the indices share a label, the remapping has exactly one item for every
\* base id and no two items with the same new id; a base-only label gets a new id that
\* is not the target id of a shared label.
PermuteInjective ==
    (call.fn = "permute_label_to_idx_to_match"
        /\ SharedNames(call.label_to_idx_base, call.label_to_idx_target) # {}) =>
        /\ ~IsRaised(ret)
        /\ {ret.remapping[i][1] : i \in 1 .. Len(ret.remapping)}
             = {call.label_to_idx_base[b][2] : b \in 1 .. Len(call.label_to_idx_base)}
        /\ \A i, j \in 1 .. Len(ret.remapping) :
              i # j => /\ ret.remapping[i][1] # ret.remapping[j][1]
                       /\ ret.remapping[i][2] # ret.remapping[j][2]
        /\ \A b \in 1 .. Len(call.label_to_idx_base) :
              call.label_to_idx_base[b][1] \notin DictKeys(call.label_to_idx_target) =>
                 \A i \in 1 .. Len(ret.remapping) :
                    ret.remapping[i][1] = call.label_to_idx_base[b][2] =>
                       \A t \in 1 .. Len(call.label_to_idx_target) :
                          call.label_to_idx_target[t][1] \in DictKeys(call.label_to_idx_base)
                             => ret.remapping[i][2] # call.label_to_idx_target[t][2]

\* C10 witness: base {A: 0, B: 1, C: 2} and target {B: 0, C: 5}; A is sent to 1.
PermuteExample ==
    /\ call.fn = "permute_label_to_idx_to_match"
    /\ call.label_to_idx_base = <<<<"A", 0>>, <<"B", 1>>, <<"C", 2>>>>
    /\ call.label_to_idx_target = <<<<"B", 0>>, <<"C", 5>>>>
    /\ ~IsRaised(ret)
    /\ DictGet(ret.remapping, 0) = 1
    /\ DictGet(ret.remapping, 1) = 0
    /\ DictGet(ret.remapping, 2) = 5

\* The vertex identifiers two graphs share.
SharedIds(f, s) == DOMAIN f.vertex_to_idx \cap DOMAIN s.vertex_to_idx

\* Every label of the graph has a name in the label index of the graph.
Named(g) ==
    \A p \in DOMAIN g.y : \E i \in 1 .. Len(g.label_to_idx) : g.label_to_idx[i][2] = g.y[p]

\* The name of the label of vertex v.
NameOf(g, v) ==
    g.label_to_idx[CHOOSE i \in 1 .. Len(g.label_to_idx) :
                      g.label_to_idx[i][2] = g.y[g.vertex_to_idx[v]]][1]

\* The identifiers in I that v has an edge to.
NbrsIn(g, v, I) ==
    {w \in I \cap DOMAIN g.vertex_to_idx :
        \E i \in 1 .. Len(g.edge_index) :
           g.edge_index[i] = <<g.vertex_to_idx[v], g.vertex_to_idx[w]>>}

\* Two attribute rows, in units of 1e-8, are within atol = 1e-8 plus rtol = 1e-5 of b.
Close(a, b) ==
    \A i \in DOMAIN a :
        (IF a[i] >= b[i] THEN a[i] - b[i] ELSE b[i] - a[i]) * 100000
            <= 100000 + (IF b[i] >= 0 THEN b[i] ELSE -b[i])

AttributesDiffer(f, s, v) == ~Close(f.x[f.vertex_to_idx[v]], s.x[s.vertex_to_idx[v]])

NamesDiffer(f, s, v) == NameOf(f, v) # NameOf(s, v)

NeighboursDiffer(f, s, v) == NbrsIn(f, v, SharedIds(f, s)) # NbrsIn(s, v, SharedIds(f, s))

Violated(f, s, v) ==
    AttributesDiffer(f, s, v) \/ NamesDiffer(f, s, v) \/ NeighboursDiffer(f, s, v)

IntegrityCount ==
    (call.fn = "assert_integrity" /\ ~IsRaised(ret)) =>
        /\ ret.num_asserted = Cardinality(SharedIds(first, second))
        /\ \A v \in SharedIds(first, second) : ~Violated(first, second, v)

\* C7 witness: the call returned 1; the shared vertex is at different positions in the
\* two graphs and has different label ids under one label name, and the second graph
\* has a vertex the first has not.
IntegrityCountWitness ==
    /\ call.fn = "assert_integrity"
    /\ ~IsRaised(ret)
    /\ ret.num_asserted = 1
    /\ Size(second.x) = 2
    /\ \E v \in SharedIds(first, second) :
          /\ first.vertex_to_idx[v] # second.vertex_to_idx[v]
          /\ first.y[first.vertex_to_idx[v]] # second.y[second.vertex_to_idx[v]]

SymmetricIdempotent ==
    (call.fn = "graph_make_symmetric again" /\ graph.edge_index # <<>>) =>
        /\ ~IsRaised(ret)
        /\ EdgeSet(ret.edge_index) = EdgeSet(call.edge_index)
        /\ EdgeSet(call.edge_index)
             = EdgeSet(graph.edge_index)
                 \cup {<<e[2], e[1]>> : e \in EdgeSet(graph.edge_index)}

\* C11 witness: an input with a one-way edge and a repeated column, symmetrized twice.
SymmetricWitness ==
    /\ call.fn = "graph_make_symmetric again"
    /\ ~IsRaised(ret)
    /\ Len(graph.edge_index) = 2
    /\ \E e \in EdgeSet(graph.edge_index) :
          e[1] # e[2] /\ <<e[2], e[1]>> \notin EdgeSet(graph.edge_index)
    /\ Len(ret.edge_index) = 2

\* The call of graph_normalize is in or past its loop.
InNormalize == call.fn = "graph_normalize" /\ call.pc # "raised"

\* The measure of the loop: the vertex count did not grow in the latest iteration, an
\* iteration after which the loop goes on removed a vertex, no more than N + 1
\* iterations have run, and the loop was left after an iteration that removed nothing
\* or with the empty graph.
LoopMeasure ==
    InNormalize =>
        /\ Size(call.g.x) <= call.before
        /\ (call.iterations > 0 /\ call.pc = "while") => Size(call.g.x) < call.before
        /\ call.iterations <= call.N + 1
        /\ call.pc = "while" => call.n = Size(call.g.x)
        /\ call.pc \in {"fix", "done"} =>
              Size(call.g.x) = call.before \/ Size(call.g.x) = 0

\* The loop is over: the call returned or raised.
LoopOver == call.fn = "graph_normalize" /\ call.pc \in {"done", "raised"}

\* C12: the loop of graph_normalize terminates: the vertex count never increases, every
\* iteration but the last removes a vertex, at most N + 1 iterations run, and the call
\* ends (after an iteration that removed nothing, or with the empty graph).
NormalizeTerminates == []LoopMeasure /\ <>LoopOver

\* C12 witness: a call that ran two iterations, the first of which removed a vertex and
\* left a graph that the second emptied.
NormalizeTerminatesWitness ==
    /\ InNormalize
    /\ call.pc = "done"
    /\ call.iterations = 2
    /\ call.N = 3
    /\ Size(call.g.x) = 0

\* The graph g is well-formed for its own vertex count: N attribute rows and N labels at
\* the positions 0..N-1, every edge endpoint a position, and vertex_to_idx one-to-one
\* onto the positions.
WellFormed(g) ==
    /\ DOMAIN g.x = Idx(Size(g.x))
    /\ DOMAIN g.y = Idx(Size(g.x))
    /\ \A i \in 1 .. Len(g.edge_index) :
          g.edge_index[i][1] \in Idx(Size(g.x)) /\ g.edge_index[i][2] \in Idx(Size(g.x))
    /\ {g.vertex_to_idx[v] : v \in DOMAIN g.vertex_to_idx} = Idx(Size(g.x))
    /\ Cardinality(DOMAIN g.vertex_to_idx) = Size(g.x)

\* C13: every graph produced by a sequence of graph_select_idxs, graph_make_symmetric,
\* graph_get_largest_connected_component, graph_select_labels and graph_normalize from a
\* well-formed graph is well-formed with respect to its own vertex count.
SequenceWellFormed == WellFormed(graph)

\* C13 witness: a normalization that removed a vertex from a graph which an earlier
\* operation of the sequence had already reduced and which still has an edge.
SequenceWellFormedWitness ==
    /\ call.fn = "graph_normalize"
    /\ Size(call.parent.x) = 2
    /\ VertexIds[1] \notin DOMAIN call.parent.vertex_to_idx
    /\ Size(graph.x) = 1
    /\ Len(graph.edge_index) > 0
    /\ WellFormed(graph)

\* C14: the vertex_to_idx returned by graph_select_idxs holds exactly the vertex
\* identifiers whose old position the mask selects, maps them one-to-one onto
\* 0..mask.sum()-1, and gives the selected vertex with the k-th smallest old position the
\* new position k.
SelectIdxsRenumbers ==
    call.fn = "graph_select_idxs" =>
        /\ DOMAIN graph.vertex_to_idx =
              {v \in DOMAIN call.parent.vertex_to_idx :
                  call.parent.vertex_to_idx[v] \in Selected(call.mask)}
        /\ {graph.vertex_to_idx[v] : v \in DOMAIN graph.vertex_to_idx}
              = Idx(MaskSum(call.mask))
        /\ \A v, w \in DOMAIN graph.vertex_to_idx :
              v # w => graph.vertex_to_idx[v] # graph.vertex_to_idx[w]
        /\ \A v \in DOMAIN graph.vertex_to_idx :
              graph.vertex_to_idx[v]
                  = RankIn(Selected(call.mask), call.parent.vertex_to_idx[v])

\* C14 witness: the first and the last of three vertices are selected, and the last one
\* moves from position 2 to position 1.
SelectIdxsRenumbersWitness ==
    /\ call.fn = "graph_select_idxs"
    /\ Size(call.parent.x) = 3
    /\ Selected(call.mask) = {0, 2}
    /\ \E v \in DOMAIN graph.vertex_to_idx :
          call.parent.vertex_to_idx[v] = 2 /\ graph.vertex_to_idx[v] = 1

\* C15: when the mask has at least num_samples true entries sample_from_mask returns a
\* mask of the same length with exactly num_samples true entries, all inside the input
\* mask; otherwise it raises SamplingError, returns no mask and leaves the generator it
\* was given as it was.
SampleExactOrRaises ==
    call.fn = "sample_from_mask" =>
        IF MaskSum(call.mask) >= call.num_samples
        THEN /\ ~IsRaised(ret)
             /\ DOMAIN ret.sample_mask = DOMAIN call.mask
             /\ MaskSum(ret.sample_mask) = call.num_samples
             /\ \A p \in DOMAIN call.mask : ret.sample_mask[p] => call.mask[p]
        ELSE /\ IsRaised(ret)
             /\ ret.raised = "SamplingError"
             /\ "sample_mask" \notin DOMAIN ret
             /\ rng = call.rng

\* C15 witness: two of three masked positions are sampled with the caller's generator,
\* which the shuffle advanced.
SampleExactWitness ==
    /\ call.fn = "sample_from_mask"
    /\ call.supplied
    /\ MaskSum(call.mask) = 3 /\ call.num_samples = 2
    /\ ~IsRaised(ret)
    /\ MaskSum(ret.sample_mask) = 2
    /\ rng # call.rng

\* C15 witness: three samples are asked of a mask with two entries, whose shuffle would
\* have advanced the caller's generator.
SampleRaisesWitness ==
    /\ call.fn = "sample_from_mask"
    /\ call.supplied
    /\ MaskSum(call.mask) = 2 /\ call.num_samples = 3
    /\ IsRaised(ret)
    /\ rng = call.rng

\* C16: the split stratified_split makes for a seed is the one it makes when that seed is
\* the only one of the list: it depends on the labels, the seed and the sizes alone, not on
\* the other seeds, the position of the seed, or a generator left by an earlier split.
StratifiedPerSeed ==
    (call.fn = "stratified_split" /\ ~IsRaised(ret)) =>
        \A split_idx \in Idx(Len(call.seeds)), c \in Idx(Len(call.sizes)) :
            ret.mask[c][split_idx]
                = stratified_split(graph.y, <<call.seeds[split_idx + 1]>>,
                                   call.sizes).mask[c][0]

\* C16 witness: the same seed twice, on three vertices of one label split into two
\* non-empty portions: both splits are the same although the first one shuffled.
StratifiedPerSeedWitness ==
    /\ call.fn = "stratified_split" /\ ~IsRaised(ret)
    /\ Len(call.seeds) = 2 /\ call.seeds[1] = call.seeds[2]
    /\ Len(call.sizes) = 2
    /\ Size(graph.y) = 3 /\ \A p \in DOMAIN graph.y : graph.y[p] = graph.y[0]
    /\ \E p \in DOMAIN graph.y : ret.mask[0][0][p]
    /\ \E p \in DOMAIN graph.y : ret.mask[1][0][p]
    /\ ret.mask[0][0] # [p \in DOMAIN graph.y |-> p = 0]
    /\ \A c \in Idx(2) : ret.mask[c][0] = ret.mask[c][1]

\* The vertex identifiers, and the label names, that s has and f lacks.
ExtraIds(f, s) == DOMAIN s.vertex_to_idx \ DOMAIN f.vertex_to_idx

ExtraNames(f, s) == DictKeys(s.label_to_idx) \ DictKeys(f.label_to_idx)

\* C17: with assert_second_is_vertex_subset the call fails when second has a vertex
\* identifier first lacks, and with assert_second_is_label_subset it fails when second's
\* label index has a name first's lacks; with a flag off, such identifiers or names do not
\* make the call fail: it returns whenever all labels are named, no shared vertex is
\* violated and the other flag is off or satisfied.
SubsetFlags ==
    call.fn = "assert_integrity" =>
        /\ (call.assert_second_is_vertex_subset /\ ExtraIds(first, second) # {})
              => IsRaised(ret)
        /\ (call.assert_second_is_label_subset /\ ExtraNames(first, second) # {})
              => IsRaised(ret)
        /\ (/\ Named(first) /\ Named(second)
            /\ \A v \in SharedIds(first, second) : ~Violated(first, second, v)
            /\ ~call.assert_second_is_vertex_subset \/ ExtraIds(first, second) = {}
            /\ ~call.assert_second_is_label_subset \/ ExtraNames(first, second) = {})
              => ~IsRaised(ret)

\* C17 witness: second has a vertex and a label name that first lacks, both flags are
\* off, and the call returned the number of shared vertices.
SubsetFlagsWitness ==
    /\ call.fn = "assert_integrity"
    /\ ~call.assert_second_is_vertex_subset /\ ~call.assert_second_is_label_subset
    /\ ExtraIds(first, second) # {} /\ ExtraNames(first, second) # {}
    /\ SharedIds(first, second) # {}
    /\ ~IsRaised(ret)
    /\ ret.num_asserted = 1

\* C18: after a call of graph_select_idxs, graph_get_largest_connected_component,
\* graph_make_symmetric, graph_normalize, graph_select_labels, remap_labels,
\* compress_labels or split_from_mask_stratified, whether it returned or raised, every
\* array and mapping passed to it holds the value it held before the call.
InputsKept ==
    (call.fn # "none" /\ call.fn # "changed") =>
        \A name \in DOMAIN call.before \ {"h", "rng"} :
            ret.h[call.before[name]] = Val(call.before, name)

\* C18 witness: graph_select_labels with connected=True wrote the mask of a component
\* that dropped a vertex into its mask, and returned another label vector than it got.
InputsKeptWitness ==
    /\ call.fn = "graph_select_labels"
    /\ ~IsRaised(ret)
    /\ "lcc_mask" \in DOMAIN ret
    /\ \E p \in DOMAIN Val(ret, "lcc_mask") : ~Val(ret, "lcc_mask")[p]
    /\ Val(ret, "y") # graph.y
    /\ \A name \in DOMAIN call.before \ {"h"} :
          ret.h[call.before[name]] = Val(call.before, name)

\* C19 (as claimed): a change in place of an array or index of the graph derived by
\* graph_select_idxs, graph_get_largest_connected_component, graph_select_labels or
\* graph_normalize leaves every array and index of the parent graph as it was.
DerivedOwnsObjects ==
    call.fn = "changed" =>
        \A name \in DOMAIN call.before \ {"h"} :
            ret.h[call.before[name]] = Val(call.before, name)

\* The new ids the remapping gives to the labels of base that are not in target.
BaseOnlyIds(base, target, remapping) ==
    {DictGet(remapping, base[b][2]) :
        b \in {k \in 1 .. Len(base) : base[k][1] \notin DictKeys(target)}}

\* The target ids of the labels in both indices.
SharedIdsOf(base, target) ==
    {target[t][2] : t \in {k \in 1 .. Len(target) : target[k][1] \in DictKeys(base)}}

\* C20 (as claimed): when the indices share a label, the new ids of the labels in base
\* but not in target are the consecutive ids that follow the largest id of a shared
\* label.
PermuteAppendsRange ==
    (call.fn = "permute_label_to_idx_to_match"
        /\ SharedNames(call.label_to_idx_base, call.label_to_idx_target) # {}) =>
        /\ ~IsRaised(ret)
        /\ LET shared == SharedIdsOf(call.label_to_idx_base, call.label_to_idx_target)
               new == BaseOnlyIds(call.label_to_idx_base, call.label_to_idx_target,
                                  ret.remapping)
               last == CHOOSE m \in shared : \A v \in shared : v <= m
           IN new = (last + 1) .. (last + Cardinality(new))

\* C20: when the indices share a label, every id from 0 up to the new id of a label in
\* base but not in target is the new id of some label: the new ids fill the gaps the
\* ids of the shared labels leave, smallest first, and are the consecutive ids after
\* the shared ones when the shared ids are 0 .. s-1.
PermuteFillsGaps ==
    (call.fn = "permute_label_to_idx_to_match"
        /\ SharedNames(call.label_to_idx_base, call.label_to_idx_target) # {}) =>
        /\ ~IsRaised(ret)
        /\ LET shared == SharedIdsOf(call.label_to_idx_base, call.label_to_idx_target)
               new == BaseOnlyIds(call.label_to_idx_base, call.label_to_idx_target,
                                  ret.remapping)
           IN /\ new \cap shared = {}
              /\ Cardinality(new) = Cardinality(DictKeys(call.label_to_idx_base)
                                                  \ DictKeys(call.label_to_idx_target))
              /\ \A v \in new : Idx(v) \subseteq new \cup shared
              /\ shared = Idx(Cardinality(shared)) =>
                    new = Cardinality(shared) .. (Cardinality(shared) + Cardinality(new) - 1)

\* C20 witness: two labels only in base got ids on either side of the id of a shared
\* label, one in a gap below it and one after it.
PermuteFillsGapsWitness ==
    /\ call.fn = "permute_label_to_idx_to_match"
    /\ ~IsRaised(ret)
    /\ \E lo, hi \in BaseOnlyIds(call.label_to_idx_base, call.label_to_idx_target,
                                 ret.remapping) :
          \E mid \in SharedIdsOf(call.label_to_idx_base, call.label_to_idx_target) :
             lo < mid /\ mid < hi

\* The edges of g between the positions S, renumbered by rank in S.
InducedEdges(E, S) ==
    {<<RankIn(S, e[1]), RankIn(S, e[2])>> : e \in {f \in E : f[1] \in S /\ f[2] \in S}}

\* The edges and their reverses.
WithReverses(E) == E \cup {<<e[2], e[1]>> : e \in E}

\* The positions of the input graph whose vertices the result holds.
Survivors(g, r) == {g.vertex_to_idx[v] : v \in DOMAIN r.vertex_to_idx}

\* C21: a non-empty graph returned by graph_normalize is one connected component (edges
\* read as undirected) and none of its classes has fewer than min_class_count vertices;
\* with min_class_count = 0 it holds the vertices, attribute rows, edges and label names
\* of a whole component of the (symmetrized) input that no other component exceeds.
NormalizeResult ==
    (call.fn = "graph_normalize" /\ ~IsRaised(ret) /\ Size(ret.x) > 0) =>
        /\ \A i \in DOMAIN ret.x : Grow({i}, EdgeSet(ret.edge_index)) = DOMAIN ret.x
        /\ \A l \in Unique(ret.y) : ~(Count(ret.y, l) < call.min_class_count)
        /\ call.min_class_count = 0 =>
              LET E == IF call.make_symmetric THEN WithReverses(EdgeSet(graph.edge_index))
                       ELSE EdgeSet(graph.edge_index)
                  kept == Survivors(graph, ret)
              IN /\ \A u \in kept : Grow({u}, E) = kept
                 /\ \A v \in DOMAIN graph.x :
                       Cardinality(Grow({v}, E)) <= Cardinality(kept)
                 /\ RowsAre(ret.x, graph.x, kept)
                 /\ EdgeSet(ret.edge_index) = InducedEdges(E, kept)
                 /\ \A v \in DOMAIN ret.vertex_to_idx :
                       /\ ret.vertex_to_idx[v] = RankIn(kept, graph.vertex_to_idx[v])
                       /\ NameOf(ret, v) = NameOf(graph, v)

\* C21 witness: a class of one vertex was pruned from a path of three vertices and the
\* two vertices left are joined by an edge.
NormalizeResultWitness ==
    /\ call.fn = "graph_normalize"
    /\ ~IsRaised(ret)
    /\ call.min_class_count = 2
    /\ Size(graph.x) = 3
    /\ Grow({0}, EdgeSet(graph.edge_index)) = DOMAIN graph.x
    /\ Size(ret.x) = 2
    /\ Cardinality(Unique(graph.y)) = 2

\* C21 witness: with min_class_count = 0 the result is a component of two vertices out
\* of three, with both classes in it.
NormalizePlainWitness ==
    /\ call.fn = "graph_normalize"
    /\ ~IsRaised(ret)
    /\ call.min_class_count = 0
    /\ Size(graph.x) = 3
    /\ Size(ret.x) = 2
    /\ Cardinality(Unique(ret.y)) = 2

\* C22: the edge set graph_select_idxs returns is exactly the set of the input edges with
\* both endpoints selected, each endpoint p replaced by the number of selected positions
\* below p; every returned edge lies within the new positions.
SelectIdxsEdges ==
    call.fn = "graph_select_idxs" =>
        /\ ~IsRaised(ret)
        /\ EdgeSet(ret.edge_index)
             = {<<NewPos(call.mask, e[1]), NewPos(call.mask, e[2])>> :
                   e \in {f \in EdgeSet(graph.edge_index) :
                             call.mask[f[1]] /\ call.mask[f[2]]}}
        /\ \A i, j \in 1 .. Len(ret.edge_index) : i # j => ret.edge_index[i] # ret.edge_index[j]
        /\ \A e \in EdgeSet(ret.edge_index) :
              e[1] \in DOMAIN ret.x /\ e[2] \in DOMAIN ret.x

\* C22 witness: one input edge ends in a dropped position and is lost, another joins two
\* selected positions, one of them above the dropped one, and is kept renumbered.
SelectIdxsEdgesWitness ==
    /\ call.fn = "graph_select_idxs"
    /\ ~IsRaised(ret)
    /\ \E lost, kept \in EdgeSet(graph.edge_index) :
          /\ call.mask[lost[1]] /\ ~call.mask[lost[2]]
          /\ call.mask[kept[1]] /\ call.mask[kept[2]] /\ kept[1] # kept[2]
          /\ lost[2] < kept[2]
          /\ <<NewPos(call.mask, kept[1]), NewPos(call.mask, kept[2])>>
                \in EdgeSet(ret.edge_index)
          /\ kept \notin EdgeSet(ret.edge_index)

\* C23: for a non-empty edge list, graph_make_symmetric returns the input edges and
\* their reverses and nothing else: the result holds (v, u) whenever it holds (u, v),
\* holds every input edge, holds no pair that is neither an input edge nor the reverse
\* of one, and lists every pair once, a self-loop and a repeated input edge included.
SymmetricUnion ==
    (call.fn = "graph_make_symmetric" /\ graph.edge_index # <<>>) =>
        /\ ~IsRaised(ret)
        /\ \A e \in EdgeSet(ret.edge_index) : <<e[2], e[1]>> \in EdgeSet(ret.edge_index)
        /\ EdgeSet(graph.edge_index) \subseteq EdgeSet(ret.edge_index)
        /\ \A e \in EdgeSet(ret.edge_index) :
              e \in EdgeSet(graph.edge_index) \/ <<e[2], e[1]>> \in EdgeSet(graph.edge_index)
        /\ \A i, j \in 1 .. Len(ret.edge_index) :
              i # j => ret.edge_index[i] # ret.edge_index[j]

\* C23 witness: a self-loop and a one-way edge give three columns.
SymmetricUnionWitness ==
    /\ call.fn = "graph_make_symmetric"
    /\ ~IsRaised(ret)
    /\ Len(graph.edge_index) = 2
    /\ \E l, e \in EdgeSet(graph.edge_index) : l[1] = l[2] /\ e[1] # e[2]
    /\ Len(ret.edge_index) = 3

\* C23 witness: an edge given twice gives two columns, the edge and its reverse.
SymmetricRepeatedWitness ==
    /\ call.fn = "graph_make_symmetric"
    /\ ~IsRaised(ret)
    /\ Len(graph.edge_index) = 2
    /\ graph.edge_index[1] = graph.edge_index[2]
    /\ graph.edge_index[1][1] # graph.edge_index[1][2]
    /\ Len(ret.edge_index) = 2


\* The exact cumulative sum of the sizes up to i, in units of 1 / SizeDen, the last one
\* set to 1.
ExactEndpoint(sizes, i) ==
    IF i = Len(sizes) THEN SizeDen ELSE SeqSum(SubSeq(sizes, 1, i))

\* The number of vertices of label l that the call put in column i (counted from 1).
InColumn(l, i) ==
    Cardinality({p \in DOMAIN graph.y : graph.y[p] = l /\ ret.split_mask[p][i - 1]})

\* The number of vertices of label l in the mask.
InMask(l) == Cardinality({p \in DOMAIN graph.y : graph.y[p] = l /\ call.mask[p]})

\* C24 (as claimed): for every label with c masked vertices and every column i, the number
\* of vertices of the label in column i is floor(c * E_i) - floor(c * E_(i-1)), E_i the
\* cumulative sum of the sizes up to i with the last one 1, and it differs from
\* c * sizes[i] by less than 1.
SplitFloorCounts ==
    (call.fn = "split_from_mask_stratified" /\ ~IsRaised(ret)) =>
        \A l \in Unique(graph.y), i \in 1 .. Len(call.sizes) :
            /\ InColumn(l, i)
                 = (InMask(l) * ExactEndpoint(call.sizes, i)) \div SizeDen
                   - (InMask(l) * ExactEndpoint(call.sizes, i - 1)) \div SizeDen
            /\ Abs(InColumn(l, i) * SizeDen - InMask(l) * call.sizes[i]) < SizeDen

\* The name of the label id l in the label index d.
LabelNameOf(d, l) == d[CHOOSE i \in 1 .. Len(d) : d[i][2] = l][1]

\* The labels a call returned, and for each of them the label the same vertex had in
\* the input (graph_select_labels returns the vertices of its mask).
NewLabels == IF call.fn = "graph_select_labels" THEN ret.y ELSE ret.labels

OldLabels ==
    IF call.fn = "graph_select_labels"
    THEN [k \in Idx(MaskSum(ret.mask)) |-> graph.y[OldPos(ret.mask, k)]]
    ELSE graph.y

Compressing ==
    \/ call.fn = "compress_labels"
    \/ call.fn = "graph_select_labels" /\ call.compress

\* C25: when compress_labels, or graph_select_labels with _compress_labels=True,
\* returns, the returned labels are exactly 0 .. k-1 for the k distinct labels left,
\* in ascending order of the old ids; the returned label index is a bijection between
\* the names of the labels left and 0 .. k-1, and every vertex keeps its label name.
CompressDense ==
    (Compressing /\ ~IsRaised(ret)) =>
        /\ DOMAIN NewLabels = DOMAIN OldLabels
        /\ Unique(NewLabels) = Idx(Cardinality(Unique(OldLabels)))
        /\ \A p, q \in DOMAIN NewLabels :
              (OldLabels[p] < OldLabels[q]) => (NewLabels[p] < NewLabels[q])
        /\ Len(ret.label_to_idx) = Cardinality(Unique(OldLabels))
        /\ DictKeys(ret.label_to_idx)
             = {LabelNameOf(graph.label_to_idx, l) : l \in Unique(OldLabels)}
        /\ DictValues(ret.label_to_idx) = Idx(Cardinality(Unique(OldLabels)))
        /\ \A p \in DOMAIN NewLabels :
              LabelNameOf(ret.label_to_idx, NewLabels[p])
                = LabelNameOf(graph.label_to_idx, OldLabels[p])

\* graph_select_labels compressed the labels of a subgraph in which two labels are
\* left, the smaller old id is not 0 and the old ids are not consecutive.
CompressDenseWitness ==
    /\ call.fn = "graph_select_labels" /\ call.compress /\ ~IsRaised(ret)
    /\ MaskSum(ret.mask) < Size(graph.y)
    /\ Cardinality(Unique(OldLabels)) = 2
    /\ Unique(OldLabels) \cap {0, 2} = {}
    /\ graph.label_to_idx[1][2] = 3

\* compress_labels returned for labels with a gap.
CompressLabelsWitness ==
    /\ call.fn = "compress_labels" /\ ~IsRaised(ret)
    /\ Unique(graph.y) = {0, 2, 3}

\* The position of the label name in the label index d.
IndexPos(d, name) == CHOOSE i \in 1 .. Len(d) : d[i][1] = name

\* What C26 says of a returned graph apart from the order of the new ids: the label
\* index holds exactly the names of the surviving vertices, its ids are 0 .. k-1, and
\* every surviving vertex has a label >= 0 under the name it had.
NormalizeNamesKept ==
    /\ DictKeys(ret.label_to_idx) = {NameOf(graph, v) : v \in DOMAIN ret.vertex_to_idx}
    /\ \A i \in 1 .. Len(ret.label_to_idx) : ret.label_to_idx[i][2] = i - 1
    /\ \A v \in DOMAIN ret.vertex_to_idx :
          /\ ret.y[ret.vertex_to_idx[v]] >= 0
          /\ NameOf(ret, v) = NameOf(graph, v)

NormalizeNamed == call.fn = "graph_normalize" /\ LabelsNamed(graph)

\* C26 (as claimed): after graph_normalize on a graph whose labels all have a name, the
\* assertion does not fail, the label index holds exactly the names of the surviving
\* vertices with the ids 0 .. k-1, every surviving vertex keeps its name, and the ids
\* follow the order in which the labels are first met among the surviving vertices.
NormalizeFirstEncountered ==
    NormalizeNamed =>
        /\ ret # Raise("AssertionError")
        /\ ~IsRaised(ret) =>
              /\ NormalizeNamesKept
              /\ \A p \in DOMAIN ret.y :
                    ret.y[p] <= Cardinality({ret.y[q] : q \in {r \in DOMAIN ret.y : r < p}})

\* C26 (amended): as above, but the ids follow the order in which the names stand in
\* the label index passed in.
NormalizeIndexOrder ==
    NormalizeNamed =>
        /\ ret # Raise("AssertionError")
        /\ ~IsRaised(ret) =>
              /\ NormalizeNamesKept
              /\ \A i, j \in 1 .. Len(ret.label_to_idx) :
                    i < j => IndexPos(graph.label_to_idx, ret.label_to_idx[i][1])
                               < IndexPos(graph.label_to_idx, ret.label_to_idx[j][1])

\* graph_normalize dropped a vertex and a label name, and the first surviving vertex
\* has the name that stands later in the label index.
NormalizeIndexOrderWitness ==
    /\ NormalizeNamed /\ ~IsRaised(ret)
    /\ Size(ret.y) = 2 /\ Size(graph.y) = 3
    /\ Len(ret.label_to_idx) = 2
    /\ ret.y[0] = 1 /\ ret.y[1] = 0
    /\ graph.y[0] < graph.y[2]

\* C27: when remap_labels returns, a vertex whose label is a key of the remapping has
\* the value the remapping gives to that label, every other vertex has undefined_label,
\* and the returned label index maps exactly the names whose id is a key of the
\* remapping, each to the new id of its old id.
RemapSimultaneous ==
    (call.fn = "remap_labels" /\ ~IsRaised(ret)) =>
        /\ DOMAIN ret.labels = DOMAIN graph.y
        /\ \A p \in DOMAIN graph.y :
              ret.labels[p] = IF graph.y[p] \in DictKeys(call.remapping)
                              THEN DictGet(call.remapping, graph.y[p])
                              ELSE call.undefined_label
        /\ DictKeys(ret.label_to_idx)
             = {graph.label_to_idx[i][1] :
                   i \in {j \in 1 .. Len(graph.label_to_idx) :
                             graph.label_to_idx[j][2] \in DictKeys(call.remapping)}}
        /\ Len(ret.label_to_idx) = Len(call.remapping)
        /\ \A i \in 1 .. Len(graph.label_to_idx) :
              graph.label_to_idx[i][2] \in DictKeys(call.remapping) =>
                  DictGet(ret.label_to_idx, graph.label_to_idx[i][1])
                    = DictGet(call.remapping, graph.label_to_idx[i][2])

\* remap_labels returned for the remapping {0: 1, 1: 0} and labels 0, 1 and a third one.
RemapSwapWitness ==
    /\ call.fn = "remap_labels" /\ ~IsRaised(ret)
    /\ call.remapping = <<<<0, 1>>, <<1, 0>>>>
    /\ {0, 1} \subseteq Unique(graph.y) /\ Cardinality(Unique(graph.y)) = 3
    /\ graph.label_to_idx[1][2] = 1

\* C28 (as claimed): when base and target share no label name, the call returns a
\* remapping that gives the k ids of base, in the order of its items, the ids 0 .. k-1.
PermuteDisjoint ==
    (/\ call.fn = "permute_label_to_idx_to_match"
     /\ SharedNames(call.label_to_idx_base, call.label_to_idx_target) = {}) =>
        /\ ~IsRaised(ret)
        /\ ret.remapping = [i \in 1 .. Len(call.label_to_idx_base) |->
                               <<call.label_to_idx_base[i][2], i - 1>>]

\* The vertices of the class l that the mask of the call makes available.
Available(l) == {p \in DOMAIN call.mask : call.mask[p] /\ call.labels[p] = l}

SelectedClasses == {call.order[i] : i \in 1 .. Len(call.order)}

\* C29 (as claimed): when a selected class has fewer than num_samples available
\* vertices, sample_uniformly raises SamplingError and leaves the supplied generator in
\* the state it had before the call; otherwise it returns a mask of exactly num_samples
\* available vertices of each selected class.
UniformAllOrNothing ==
    (call.fn = "sample_uniformly") =>
        IF \E l \in SelectedClasses : Cardinality(Available(l)) < call.num_samples
        THEN /\ IsRaised(ret) /\ ret.raised = "SamplingError"
             /\ call.supplied => rng = call.rng
        ELSE /\ ~IsRaised(ret)
             /\ \A l \in SelectedClasses :
                   Cardinality({p \in Available(l) : ret.sample_mask[p]}) = call.num_samples
             /\ \A p \in DOMAIN ret.sample_mask :
                   ret.sample_mask[p] =>
                       (call.mask[p] /\ call.labels[p] \in SelectedClasses)

\* The label of vertex v has a name in the label index of g.
NamedAt(g, v) == g.y[g.vertex_to_idx[v]] \in DictValues(g.label_to_idx)

\* C30 (as claimed): with both subset flags off, assert_integrity does not fail when
\* every vertex present in both graphs has a named label in both and passes the three
\* checks, whatever the vertices of only one graph and their labels are.
IntegrityOnlyShared ==
    (/\ call.fn = "assert_integrity"
     /\ ~call.assert_second_is_vertex_subset /\ ~call.assert_second_is_label_subset
     /\ \A v \in SharedIds(first, second) :
           /\ NamedAt(first, v) /\ NamedAt(second, v)
           /\ ~Violated(first, second, v)) =>
        ~IsRaised(ret)

====
